---- MODULE Spec2Model ----
(***************************************************************************)
(* Verification model of web-texture-tool's transcode worker protocol:     *)
(*   - the coordinator side (WorkerLoader: pending-request map, ids,       *)
(*     onWorkerMessage, WebTextureTool.destroy),                           *)
(*   - the worker side (CreateTextureMessageHandler, the KTX2 worker's     *)
(*     onmessage / parseFile / transcodeEtc1s, the Basis transcode()),     *)
(*   - transcode target-format selection, and                              *)
(*   - the packing of transcoded mip levels into one buffer.               *)
(***************************************************************************)
EXTENDS Integers, Sequences, FiniteSets, TLC

----------------------------------------------------------------------------
(* Format tables                                                           *)

\* Keys of WTT_FORMAT_MAP, in declaration order.
TargetFormats ==
  {"BC1_RGB", "BC3_RGBA", "BC7_RGBA", "ETC1_RGB", "ETC2_RGBA", "ASTC_4x4_RGBA",
   "PVRTC1_4_RGB", "PVRTC1_4_RGBA", "RGBA32", "RGB565", "RGBA4444"}

WTT_FORMAT_MAP ==
  [t \in TargetFormats |->
     CASE t = "BC1_RGB"       -> [format |-> "bc1-rgb-unorm",          uncompressed |-> FALSE]
       [] t = "BC3_RGBA"      -> [format |-> "bc3-rgba-unorm",         uncompressed |-> FALSE]
       [] t = "BC7_RGBA"      -> [format |-> "bc7-rgba-unorm",         uncompressed |-> FALSE]
       [] t = "ETC1_RGB"      -> [format |-> "etc1-rgb-unorm",         uncompressed |-> FALSE]
       [] t = "ETC2_RGBA"     -> [format |-> "etc2-rgba8unorm",        uncompressed |-> FALSE]
       [] t = "ASTC_4x4_RGBA" -> [format |-> "astc-4x4-rgba-unorm",    uncompressed |-> FALSE]
       [] t = "PVRTC1_4_RGB"  -> [format |-> "pvrtc1-4bpp-rgb-unorm",  uncompressed |-> FALSE]
       [] t = "PVRTC1_4_RGBA" -> [format |-> "pvrtc1-4bpp-rgba-unorm", uncompressed |-> FALSE]
       [] t = "RGBA32"        -> [format |-> "rgba8unorm",             uncompressed |-> TRUE]
       [] t = "RGB565"        -> [format |-> "rgb565unorm",            uncompressed |-> TRUE]
       [] t = "RGBA4444"      -> [format |-> "rgba4unorm",             uncompressed |-> TRUE]]

\* Every WebTextureFormat string a transcode target maps to.
WttFormats == {WTT_FORMAT_MAP[t].format : t \in TargetFormats}

\* The sentinel for JavaScript's undefined.
Undefined == "undefined"

\* Deliberately wrong variants of the alpha preference list: its first two
\* entries swapped, and the list without its uncompressed fallback.
alphaFormatPreference_Swapped ==
  <<"BC7_RGBA", "ETC2_RGBA", "BC3_RGBA", "ASTC_4x4_RGBA", "PVRTC1_4_RGBA", "RGBA32">>

alphaFormatPreference_NoFallback ==
  <<"ETC2_RGBA", "BC7_RGBA", "BC3_RGBA", "ASTC_4x4_RGBA", "PVRTC1_4_RGBA">>

alphaFormatPreference ==
  <<"ETC2_RGBA", "BC7_RGBA", "BC3_RGBA", "ASTC_4x4_RGBA", "PVRTC1_4_RGBA", "RGBA32">>

opaqueFormatPreference ==
  <<"ETC1_RGB", "BC7_RGBA", "BC1_RGB", "ETC2_RGBA", "ASTC_4x4_RGBA", "PVRTC1_4_RGB",
    "RGB565", "RGBA32">>

\* for (targetFormat in WTT_FORMAT_MAP)
\*   supportedFormats[targetFormat] = msg.data.supportedFormats.indexOf(wttFormat.format) > -1
SupportedTranscodeFormats(supportedFormats) ==
  [t \in TargetFormats |-> WTT_FORMAT_MAP[t].format \in supportedFormats]

\* BasisTranscoder.isFormatSupported(basisFormat, 'ETC1S'): whether the
\* transcoder build can produce the target.  `targets` is the set of targets
\* the loaded transcoder build was compiled with.
isFormatSupported(format, targets) == format \in targets

\* The transcoder library always provides ETC1 and the uncompressed targets;
\* every other target is a compile-time option of the build.
AlwaysTargets == {"ETC1_RGB", "RGBA32", "RGB565", "RGBA4444"}

TranscoderBuilds ==
  { TargetFormats,
    TargetFormats \ {"ETC2_RGBA"},
    TargetFormats \ {"BC7_RGBA", "PVRTC1_4_RGB", "PVRTC1_4_RGBA"},
    AlwaysTargets }

\* The loop "for (const format of formats) { if (supported[format]) { if
\* (isFormatSupported(...)) { targetFormat = format; break; } } }".
RECURSIVE FindTargetFormat(_, _, _, _)
FindTargetFormat(formats, i, supported, targets) ==
  IF i > Len(formats) THEN Undefined
  ELSE IF supported[formats[i]] /\ isFormatSupported(formats[i], targets)
       THEN formats[i]
       ELSE FindTargetFormat(formats, i + 1, supported, targets)

\* const hasAlpha = true;  (both generations of the KTX2 parseFile)
KtxHasAlpha(fileHasAlpha) == TRUE

\* Target selection in the KTX2 worker's parseFile.
KtxSelectFormat(supportedFormats, fileHasAlpha, targets) ==
  LET hasAlpha == KtxHasAlpha(fileHasAlpha)
      formats  == IF hasAlpha THEN alphaFormatPreference ELSE opaqueFormatPreference
  IN FindTargetFormat(formats, 1, SupportedTranscodeFormats(supportedFormats), targets)

\* Target selection in the Basis worker's transcode(): an if / else-if chain
\* whose last branch is unconditional.
BasisSelectFormat(supportedFormats, hasAlpha) ==
  LET s == SupportedTranscodeFormats(supportedFormats) IN
  IF hasAlpha
  THEN IF s["ETC2_RGBA"] THEN "ETC2_RGBA"
       ELSE IF s["BC7_RGBA"] THEN "BC7_RGBA"
       ELSE IF s["BC3_RGBA"] THEN "BC3_RGBA"
       ELSE IF s["ASTC_4x4_RGBA"] THEN "ASTC_4x4_RGBA"
       ELSE IF s["PVRTC1_4_RGBA"] THEN "PVRTC1_4_RGBA"
       ELSE "RGBA32"
  ELSE IF s["ETC1_RGB"] THEN "ETC1_RGB"
       ELSE IF s["BC7_RGBA"] THEN "BC7_RGBA"
       ELSE IF s["BC1_RGB"] THEN "BC1_RGB"
       ELSE IF s["ETC2_RGBA"] THEN "ETC2_RGBA"
       ELSE IF s["ASTC_4x4_RGBA"] THEN "ASTC_4x4_RGBA"
       ELSE IF s["PVRTC1_4_RGB"] THEN "PVRTC1_4_RGB"
       ELSE IF s["RGB565"] THEN "RGB565"
       ELSE "RGBA32"

----------------------------------------------------------------------------
(* Worker side: messages and handlers                                      *)

\* A request message: {id, url | buffer, supportedFormats, mipmaps}.  url is ""
\* when the message carries none; buffer tells whether an ArrayBuffer is given.
Request(id, url, buffer, supportedFormats, mipmaps) ==
  [id |-> id, url |-> url, buffer |-> buffer, supportedFormats |-> supportedFormats,
   mipmaps |-> mipmaps]

\* What the transcoded bytes of a response were made from.
SourceOf(msg) == IF msg.url # "" THEN msg.url ELSE "buffer"

\* The three shapes of message a worker posts:
\*   {id, error}, {id, buffer, format, mipLevels}, {id, format, width, height, images}.
NoError == ""

ErrorResponse(id, errorMsg) ==
  [id |-> id, error |-> errorMsg, shape |-> "error", format |-> Undefined, src |-> Undefined]

PackedResponse(id, format, src) ==
  [id |-> id, error |-> NoError, shape |-> "packed", format |-> format, src |-> src]

TextureDataResponse(id, format, src) ==
  [id |-> id, error |-> NoError, shape |-> "textureData", format |-> format, src |-> src]

\* Each handler below is the sequence of messages it posts for one request.
\* `file` describes what the request's URL or buffer holds and how the
\* environment answers:
\*   fetch        "ok" | "notok" (response.ok false) | "throws" (fetch rejects)
\*   headerValid  the first validity check of the parser passes
\*   typeOk       the second one passes (KTX2: supercompressionScheme == 1,
\*                Basis: startTranscoding(), TGA: imagetype == 2)
\*   fileHasAlpha whether the image has an alpha channel
\*   transcodeOk  whether every transcodeImage call succeeds
\*   targets      the targets the transcoder build provides

\* worker-util.js TextureLoadFail
TextureLoadFail(id, errorMsg) == <<ErrorResponse(id, errorMsg)>>

\* ktx-worker.js / basis worker fail
fail(id, errorMsg) == <<ErrorResponse(id, errorMsg)>>

\* basis worker basisFileFail: fail, then close and delete the file
basisFileFail(id, errorMsg) == fail(id, errorMsg)

\* The outcome of a parser run under CreateTextureMessageHandler.
Throw(message) == [threw |-> TRUE, message |-> message, hasTransfer |-> FALSE, format |-> Undefined]
Return(format, hasTransfer) ==
  [threw |-> FALSE, message |-> NoError, hasTransfer |-> hasTransfer, format |-> format]

\* transcodeEtc1s of the KTX2 worker built on CreateTextureMessageHandler:
\* returns a WorkerTextureData or throws.
transcodeEtc1s(targetFormat, file) ==
  IF ~file.transcodeOk
  THEN Throw("Image failed to transcode.")
  ELSE Return(WTT_FORMAT_MAP[targetFormat].format, TRUE)

\* parseFile of the KTX2 worker built on CreateTextureMessageHandler.
parseFile(supportedFormats, file) ==
  IF ~file.headerValid THEN Throw("Invalid KTX header")
  ELSE IF file.typeOk
  THEN LET targetFormat == KtxSelectFormat(supportedFormats, file.fileHasAlpha, file.targets)
       IN IF targetFormat = Undefined
          THEN Throw("No supported transcode formats")
          ELSE transcodeEtc1s(targetFormat, file)
  ELSE Throw("Only Basis ETC1S files supported currently.")

\* parseFile of the TGA worker: returns a plain object {buffer, format,
\* mipLevels}, which has no transfer method.
TgaParseFile(file) ==
  IF ~file.headerValid THEN Throw("Invalid dimensions")
  ELSE IF ~file.typeOk THEN Throw("Unsupported TGA format")
  ELSE Return("rgba8unorm", FALSE)

\* The handler CreateTextureMessageHandler(onBufferReady) returns; r is the
\* outcome of onBufferReady on the request's buffer.  fetch and arrayBuffer
\* are awaited outside the try block.
CreateTextureMessageHandler(msg, file, r) ==
  IF msg.url # "" /\ file.fetch = "throws" THEN <<>>
  ELSE IF msg.url # "" /\ file.fetch = "notok" THEN TextureLoadFail(msg.id, "Fetch failed")
  ELSE IF msg.url = "" /\ ~msg.buffer THEN TextureLoadFail(msg.id, "No url or buffer specified")
  ELSE IF r.threw THEN TextureLoadFail(msg.id, r.message)
  ELSE IF ~r.hasTransfer THEN TextureLoadFail(msg.id, "result.transfer is not a function")
  ELSE <<TextureDataResponse(msg.id, r.format, SourceOf(msg))>>

\* transcodeEtc1s of ktx/ktx-worker.js: posts the packed result itself.
KtxWorkerTranscodeEtc1s(id, src, targetFormat, file) ==
  IF ~file.transcodeOk
  THEN fail(id, "Image failed to transcode.")
  ELSE <<PackedResponse(id, WTT_FORMAT_MAP[targetFormat].format, src)>>

\* parseFile of ktx/ktx-worker.js: the invalid-header branch posts a failure
\* and does not return.
KtxWorkerParseFile(id, src, supportedFormats, file) ==
  LET invalid == IF ~file.headerValid THEN fail(id, "Invalid KTX header") ELSE <<>>
      targetFormat == KtxSelectFormat(supportedFormats, file.fileHasAlpha, file.targets)
      rest == IF file.typeOk
              THEN IF targetFormat = Undefined
                   THEN fail(id, "No supported transcode formats")
                   ELSE KtxWorkerTranscodeEtc1s(id, src, targetFormat, file)
              ELSE fail(id, "Not a basis ETC1S file.")
  IN invalid \o rest

\* onmessage of ktx/ktx-worker.js.  A rejected fetch has no handler; the
\* buffer branch first evaluates the undeclared name arrayBuffer, which throws
\* a ReferenceError before anything is posted.
KtxWorkerOnMessage(msg, file) ==
  IF msg.url # ""
  THEN CASE file.fetch = "throws" -> <<>>
         [] file.fetch = "notok"  -> fail(msg.id, "Fetch failed")
         [] file.fetch = "ok"     ->
              KtxWorkerParseFile(msg.id, SourceOf(msg), msg.supportedFormats, file)
  ELSE IF msg.buffer THEN <<>>
  ELSE fail(msg.id, "No url or buffer specified")

\* transcode() of the Basis worker.
transcode(id, src, supportedFormats, file) ==
  IF ~file.headerValid THEN basisFileFail(id, "Invalid Basis data")
  ELSE IF ~file.typeOk THEN basisFileFail(id, "startTranscoding failed")
  ELSE LET basisFormat == BasisSelectFormat(supportedFormats, file.fileHasAlpha)
       IN IF basisFormat = Undefined
          THEN basisFileFail(id, "No supported transcode formats")
          ELSE IF ~file.transcodeOk
          THEN basisFileFail(id, "transcodeImage failed")
          ELSE <<PackedResponse(id, WTT_FORMAT_MAP[basisFormat].format, src)>>

----------------------------------------------------------------------------
(* State                                                                   *)

VARIABLES
  sel,                    \* format selection: the inputs and the outcome of one selection
  wk,                     \* one worker handling one request: the request, the file, the posts
  pk,                     \* one run of a worker's mip-level packing loop
  nextPendingTextureId,   \* worker-loader.js module-level id counter
  pendingTextures,        \* worker-loader.js module-level map id -> PendingTextureRequest
  calls,                  \* the loadTextureFromUrl calls made so far and their promises
  inbox,                  \* per loader: requests its worker received and has not finished
  toMain,                 \* per loader: responses posted by its worker, not yet delivered
  tool,                   \* the tool's client slot and the client's device
  terminated,             \* loaders whose worker has been terminated
  consumed,               \* ids whose pending entry a response consumed, in order
  dropped,                \* ids of responses that found no pending entry
  thrown,                 \* ids of responses whose handling threw out of onWorkerMessage
  dm,                     \* mip-level dimensions: a base size and the sizes recorded per level
  cl,                     \* one texture-creation call on a client and what it did
  mg,                     \* the mipmap generator: its pipeline cache and the calls in flight
  tl                      \* tools sharing the extension handlers: clients, loaders, requests

protocolVars ==
  <<nextPendingTextureId, pendingTextures, calls, inbox, toMain, tool, terminated,
    consumed, dropped, thrown>>

clientVars == <<dm, cl, mg, tl>>

vars == <<sel, wk, pk, protocolVars, clientVars>>

\* The value of a variable a specification does not use.
Off == [path |-> "off"]

ClientOff ==
  /\ dm = Off
  /\ cl = Off
  /\ mg = Off
  /\ tl = Off

ProtocolOff ==
  /\ nextPendingTextureId = 0
  /\ pendingTextures = <<>>
  /\ calls = <<>>
  /\ inbox = <<>>
  /\ toMain = <<>>
  /\ tool = Off
  /\ terminated = {}
  /\ consumed = <<>>
  /\ dropped = {}
  /\ thrown = {}

----------------------------------------------------------------------------
(* Specification SpecSelect: target-format selection as a function of the  *)
(* device's supported-format list, the file's alpha flag and the           *)
(* transcoder build.                                                       *)

SelIdle(s, a, t) ==
  [supported |-> s, fileHasAlpha |-> a, targets |-> t, path |-> "none", target |-> Undefined]

InitSelect ==
  /\ \E s \in SUBSET WttFormats, a \in BOOLEAN, t \in TranscoderBuilds :
       sel = SelIdle(s, a, t)
  /\ wk = Off
  /\ pk = Off
  /\ ProtocolOff
  /\ ClientOff

\* parseFile of the KTX2 worker built on CreateTextureMessageHandler.
SelectParseFile ==
  /\ sel.path = "none"
  /\ sel' = [sel EXCEPT !.path = "ktx",
               !.target = KtxSelectFormat(sel.supported, sel.fileHasAlpha, sel.targets)]
  /\ UNCHANGED <<wk, pk, protocolVars, clientVars>>

\* parseFile of the stand-alone KTX2 worker (ktx/ktx-worker.js).
SelectKtxWorkerParseFile ==
  /\ sel.path = "none"
  /\ sel' = [sel EXCEPT !.path = "ktxworker",
               !.target = KtxSelectFormat(sel.supported, sel.fileHasAlpha, sel.targets)]
  /\ UNCHANGED <<wk, pk, protocolVars, clientVars>>

\* transcode() of the Basis worker.
SelectTranscode ==
  /\ sel.path = "none"
  /\ sel' = [sel EXCEPT !.path = "basis",
               !.target = BasisSelectFormat(sel.supported, sel.fileHasAlpha)]
  /\ UNCHANGED <<wk, pk, protocolVars, clientVars>>

NextSelect == SelectParseFile \/ SelectKtxWorkerParseFile \/ SelectTranscode

SpecSelect == InitSelect /\ [][NextSelect]_vars

----------------------------------------------------------------------------
(* Properties of format selection (checked under SpecSelect)               *)

\* The priority lists as the specification states them.
SpecAlphaList ==
  <<"ETC2_RGBA", "BC7_RGBA", "BC3_RGBA", "ASTC_4x4_RGBA", "PVRTC1_4_RGBA", "RGBA32">>

SpecOpaqueList ==
  <<"ETC1_RGB", "BC7_RGBA", "BC1_RGB", "ETC2_RGBA", "ASTC_4x4_RGBA", "PVRTC1_4_RGB",
    "RGB565", "RGBA32">>

DeviceSupports(t) == WTT_FORMAT_MAP[t].format \in sel.supported

\* Indices of `list` whose entry the device supports.
SupportedIdx(list) == {i \in 1..Len(list) : DeviceSupports(list[i])}

\* Indices of `list` whose entry the device supports and, on the KTX2 paths
\* (which ask the transcoder), the transcoder build can produce.
EligibleIdx(list) ==
  {i \in SupportedIdx(list) : sel.path = "basis" \/ list[i] \in sel.targets}

IsFirstOf(list, idx) ==
  \E i \in idx : sel.target = list[i] /\ \A j \in idx : i <= j

\* C6 (as stated): for an image with alpha, selection returns the first entry
\* of [ETC2, BC7, BC3, ASTC-4x4, PVRTC-RGBA, RGBA32] that is in the device's
\* supported-format list.
C6_AlphaFirstDeviceSupported ==
  (sel.path # "none" /\ sel.fileHasAlpha /\ SupportedIdx(SpecAlphaList) # {})
    => IsFirstOf(SpecAlphaList, SupportedIdx(SpecAlphaList))

\* C6 (amended): for an image with alpha, selection returns the first entry of
\* the alpha list that the device supports and, in the KTX2 worker, that the
\* transcoder reports it can produce (isFormatSupported); the Basis
\* transcode() asks only the device list.
C6_AlphaFirstEligible ==
  (sel.path # "none" /\ sel.fileHasAlpha /\ EligibleIdx(SpecAlphaList) # {})
    => IsFirstOf(SpecAlphaList, EligibleIdx(SpecAlphaList))

\* C6 witness: the device supports ETC2 and BC7, the transcoder build lacks
\* ETC2, and the KTX2 worker has chosen BC7 for an image with alpha.
C6_Witness ==
  /\ sel.path = "ktx" /\ sel.fileHasAlpha
  /\ {"etc2-rgba8unorm", "bc7-rgba-unorm"} \subseteq sel.supported
  /\ "ETC2_RGBA" \notin sel.targets
  /\ sel.target = "BC7_RGBA"

\* C7: for an opaque image, selection returns the first entry of the opaque
\* list [ETC1, BC7, BC1, ETC2, ASTC-4x4, PVRTC-RGB, RGB565, RGBA32] that the
\* device supports (stated here for a transcoder build that provides every
\* target, so that only the choice of list is in question).
C7_OpaqueFirstSupported ==
  (sel.path # "none" /\ ~sel.fileHasAlpha /\ sel.targets = TargetFormats
     /\ SupportedIdx(SpecOpaqueList) # {})
    => IsFirstOf(SpecOpaqueList, SupportedIdx(SpecOpaqueList))

----------------------------------------------------------------------------
(* Specification SpecWorker: one worker receives one request message and   *)
(* runs its message handler to the end.                                    *)

\* Supported-format lists a request may carry.
WorkerSupportedLists ==
  { {},
    {"rgba8unorm"},
    {"etc2-rgba8unorm", "rgba8unorm"},
    {"etc1-rgb-unorm", "rgba8unorm"},
    {"bc3-rgba-unorm"},
    {"rgb565unorm"},
    WttFormats }

Files ==
  [fetch : {"ok", "notok", "throws"}, headerValid : BOOLEAN, typeOk : BOOLEAN,
   fileHasAlpha : BOOLEAN, transcodeOk : BOOLEAN, targets : TranscoderBuilds]

InitWorker ==
  /\ \E url \in {"", "a.ktx2"}, buffer \in BOOLEAN, s \in WorkerSupportedLists, f \in Files :
       wk = [path |-> "received",
             msg  |-> Request(1, url, buffer, s, TRUE),
             file |-> f,
             out  |-> <<>>]
  /\ sel = Off
  /\ pk = Off
  /\ ProtocolOff
  /\ ClientOff

\* The KTX2 worker built on CreateTextureMessageHandler handles the message.
HandleKtx ==
  /\ wk.path = "received"
  /\ wk' = [wk EXCEPT !.path = "ktx",
              !.out = CreateTextureMessageHandler(wk.msg, wk.file,
                        parseFile(wk.msg.supportedFormats, wk.file))]
  /\ UNCHANGED <<sel, pk, protocolVars, clientVars>>

\* The TGA worker (also built on CreateTextureMessageHandler) handles it.
HandleTga ==
  /\ wk.path = "received"
  /\ wk' = [wk EXCEPT !.path = "tga",
              !.out = CreateTextureMessageHandler(wk.msg, wk.file, TgaParseFile(wk.file))]
  /\ UNCHANGED <<sel, pk, protocolVars, clientVars>>

\* ktx/ktx-worker.js handles the message.
HandleKtxWorker ==
  /\ wk.path = "received"
  /\ wk' = [wk EXCEPT !.path = "ktxworker", !.out = KtxWorkerOnMessage(wk.msg, wk.file)]
  /\ UNCHANGED <<sel, pk, protocolVars, clientVars>>

\* The Basis worker runs transcode() on the request's buffer.
HandleBasis ==
  /\ wk.path = "received"
  /\ wk.msg.url # "" \/ wk.msg.buffer
  /\ wk.file.fetch = "ok"
  /\ wk' = [wk EXCEPT !.path = "basis",
              !.out = transcode(wk.msg.id, SourceOf(wk.msg), wk.msg.supportedFormats, wk.file)]
  /\ UNCHANGED <<sel, pk, protocolVars, clientVars>>

NextWorker == HandleKtx \/ HandleTga \/ HandleKtxWorker \/ HandleBasis

SpecWorker == InitWorker /\ [][NextWorker]_vars

\* The handler has run to its end.
WorkerDone == wk.path \in {"ktx", "tga", "ktxworker", "basis"}

\* C3: for every request message a worker receives, the worker posts exactly
\* one response carrying the request's id.
C3_ExactlyOneResponse ==
  WorkerDone => (Len(wk.out) = 1 /\ wk.out[1].id = wk.msg.id)

\* The request reached format selection: its bytes were fetched and both
\* validity checks passed.
ReachedSelection ==
  wk.msg.url # "" /\ wk.file.fetch = "ok" /\ wk.file.headerValid /\ wk.file.typeOk

\* C9: when the device supports no entry of the applicable priority list, the
\* request fails with 'No supported transcode formats' as its single
\* response (stated here for images with alpha, where the applicable list is
\* the alpha list on every path).
C9_NoSupportedFormatFails ==
  ( /\ wk.path \in {"ktx", "ktxworker", "basis"}
    /\ ReachedSelection
    /\ wk.file.fileHasAlpha
    /\ \A i \in 1..Len(SpecAlphaList) :
         WTT_FORMAT_MAP[SpecAlphaList[i]].format \notin wk.msg.supportedFormats )
  => wk.out = <<ErrorResponse(wk.msg.id, "No supported transcode formats")>>

----------------------------------------------------------------------------
(* Specification Spec: one tool, its worker loaders and their workers.      *)
(* Calls are issued, workers finish requests in any order, responses are   *)
(* delivered in the order they were posted, and the tool may be destroyed.  *)

MaxCalls == 3

\* EXTENSION_HANDLERS entries that are served by a WorkerLoader with a worker
\* script modelled above.
Loaders == {"ktx2", "tga"}

Urls == {"a.ktx2", "b.ktx2", "a.tga"}

\* loadTextureFromUrl: the extension is split off the URL's path.
Extension(url) == IF url \in {"a.ktx2", "b.ktx2"} THEN "ktx2" ELSE "tga"

\* The client's FORMAT_BLOCK_SIZE table (its keys).
FORMAT_BLOCK_SIZE ==
  {"rgba8unorm", "bc1-rgba-unorm", "bc2-rgba-unorm", "bc3-rgba-unorm", "bc7-rgba-unorm"}

\* client.supportedFormats() with the texture-compression-bc extension.
supportedFormats ==
  {"rgba8unorm", "bc1-rgba-unorm", "bc2-rgba-unorm", "bc3-rgba-unorm", "bc7-rgba-unorm"}

\* What a request's URL may hold and how the fetch may go: a good file, a file
\* with an invalid header, and a fetch that rejects.  (A fetch answered with a
\* non-ok status gives one error response, as every TGA file does.)
ProtocolFiles ==
  {f \in Files :
     /\ f.typeOk /\ f.fileHasAlpha /\ f.transcodeOk /\ f.targets = TargetFormats
     /\ f.fetch \in {"ok", "throws"}
     /\ f.fetch = "throws" => f.headerValid}

\* The messages the worker of loader l posts for one request.
WorkerPosts(l, msg, file) ==
  IF l = "ktx2"
  THEN KtxWorkerOnMessage(msg, file)
  ELSE CreateTextureMessageHandler(msg, file, TgaParseFile(file))

\* Values a promise settles with.
NoValue == [kind |-> "none"]
NullResult == [kind |-> "null"]
ErrorValue(message) == [kind |-> "error", message |-> message]
Texture(msg) ==
  [kind |-> "texture", fromId |-> msg.id, src |-> msg.src, format |-> msg.format]

\* client.textureFromLevelData: null once the device is gone; throws for a
\* format without block-size information or when the device call throws.
textureFromLevelData(msg, deviceOk) ==
  IF tool.device = "null" THEN [threw |-> FALSE, value |-> NullResult]
  ELSE IF msg.format \notin FORMAT_BLOCK_SIZE \/ ~deviceOk
  THEN [threw |-> TRUE, value |-> NoValue]
  ELSE [threw |-> FALSE, value |-> Texture(msg)]

\* finishTexture: slices the levels out of the response's buffer and hands
\* them to the client.
finishTexture(msg, deviceOk) == textureFromLevelData(msg, deviceOk)

\* A deliberately wrong variant of the id counter: it never advances.
NextPendingTextureId_Stuck(id) == id

\* nextPendingTextureId++

NextPendingTextureId(id) == id + 1

\* A deliberately wrong variant of the lookup: responses are matched to the
\* oldest pending entry, i.e. by arrival order.
PendingKey_Oldest(msg) ==
  IF DOMAIN pendingTextures = {}
  THEN msg.id
  ELSE CHOOSE k \in DOMAIN pendingTextures : \A j \in DOMAIN pendingTextures : k <= j

\* The key onWorkerMessage looks the response up by: pendingTextures[msg.data.id].
PendingKey(msg) == msg.id

\* A deliberately wrong variant of the registration: the entry is not stored
\* (as if it were registered only after control had gone back to the event loop).
SetPending_Lost(id, entry) == pendingTextures

\* pendingTextures[id] = entry  and  delete pendingTextures[id]
SetPending(id, entry) ==
  [k \in DOMAIN pendingTextures \cup {id} |-> IF k = id THEN entry ELSE pendingTextures[k]]

DeletePending(id) == [k \in DOMAIN pendingTextures \ {id} |-> pendingTextures[k]]

Init ==
  /\ nextPendingTextureId = 1
  /\ pendingTextures = <<>>
  /\ calls = <<>>
  /\ inbox = [l \in Loaders |-> {}]
  /\ toMain = [l \in Loaders |-> <<>>]
  /\ tool = [CLIENT |-> "client", device |-> "device"]
  /\ terminated = {}
  /\ consumed = <<>>
  /\ dropped = {}
  /\ thrown = {}
  /\ sel = Off
  /\ wk = Off
  /\ pk = Off
  /\ ClientOff

\* tool.loadTextureFromUrl(url) and, through the extension's loader,
\* WorkerLoader.loadTextureFromUrl(client, url, options).
LoadTextureFromUrl(url) ==
  /\ Len(calls) < MaxCalls
  /\ IF tool.CLIENT = "null"
     THEN /\ calls' = Append(calls,
                        [id |-> 0, url |-> url, state |-> "rejected",
                         value |-> ErrorValue("Cannot create new textures after object has been destroyed.")])
          /\ UNCHANGED <<nextPendingTextureId, inbox, pendingTextures>>
     ELSE LET pendingTextureId == nextPendingTextureId
          IN /\ nextPendingTextureId' = NextPendingTextureId(nextPendingTextureId)
             /\ inbox' = [inbox EXCEPT ![Extension(url)] =
                            @ \cup {Request(pendingTextureId, url, FALSE, supportedFormats, TRUE)}]
             /\ pendingTextures' = SetPending(pendingTextureId, [call |-> Len(calls) + 1])
             /\ calls' = Append(calls,
                           [id |-> pendingTextureId, url |-> url, state |-> "pending",
                            value |-> NoValue])
  /\ UNCHANGED <<toMain, tool, terminated, consumed, dropped, thrown, sel, wk, pk, clientVars>>

\* The worker of loader l finishes handling one of the requests it received
\* (handlers are asynchronous, so requests finish in any order).
WorkerFinish(l) ==
  /\ \E msg \in inbox[l], file \in ProtocolFiles :
       /\ inbox' = [inbox EXCEPT ![l] = @ \ {msg}]
       /\ toMain' = [toMain EXCEPT ![l] = @ \o WorkerPosts(l, msg, file)]
  /\ UNCHANGED <<nextPendingTextureId, pendingTextures, calls, tool, terminated,
                 consumed, dropped, thrown, sel, wk, pk, clientVars>>

\* onWorkerMessage for the next response of loader l's worker.
OnWorkerMessage(l) ==
  /\ toMain[l] # <<>>
  /\ LET msg == Head(toMain[l])
         key == PendingKey(msg)
     IN /\ toMain' = [toMain EXCEPT ![l] = Tail(@)]
        /\ IF key \notin DOMAIN pendingTextures
           THEN /\ dropped' = dropped \cup {msg.id}
                /\ UNCHANGED <<pendingTextures, calls, consumed, thrown>>
           ELSE LET call == pendingTextures[key].call
                IN /\ pendingTextures' = DeletePending(key)
                   /\ consumed' = Append(consumed, key)
                   /\ UNCHANGED dropped
                   /\ IF msg.error # NoError
                      THEN /\ calls' = [calls EXCEPT ![call].state = "rejected",
                                                     ![call].value = ErrorValue(msg.error)]
                           /\ UNCHANGED thrown
                      ELSE \E deviceOk \in BOOLEAN :
                             LET result == finishTexture(msg, deviceOk)
                             IN IF result.threw
                                THEN /\ thrown' = thrown \cup {msg.id}
                                     /\ UNCHANGED calls
                                ELSE /\ calls' = [calls EXCEPT ![call].state = "resolved",
                                                               ![call].value = result.value]
                                     /\ UNCHANGED thrown
  /\ UNCHANGED <<nextPendingTextureId, inbox, tool, terminated, sel, wk, pk, clientVars>>

\* tool.destroy(): destroys the client and clears the tool's client slot.
Destroy ==
  /\ tool.CLIENT = "client"
  /\ tool' = [CLIENT |-> "null", device |-> "null"]
  /\ UNCHANGED <<nextPendingTextureId, pendingTextures, calls, inbox, toMain, terminated,
                 consumed, dropped, thrown, sel, wk, pk, clientVars>>

Next ==
  \/ \E url \in Urls : LoadTextureFromUrl(url)
  \/ \E l \in Loaders : WorkerFinish(l)
  \/ \E l \in Loaders : OnWorkerMessage(l)
  \/ Destroy

Spec == Init /\ [][Next]_vars

TypeOK ==
  /\ nextPendingTextureId \in 1..(MaxCalls + 1)
  /\ DOMAIN pendingTextures \subseteq 1..MaxCalls
  /\ Len(calls) <= MaxCalls
  /\ tool.CLIENT \in {"client", "null"}

----------------------------------------------------------------------------
(* Properties of the protocol (checked under Spec)                         *)

\* The calls that were issued an id (made before the tool was destroyed).
Issued == {i \in 1..Len(calls) : calls[i].id # 0}

ConsumedIds == {consumed[k] : k \in 1..Len(consumed)}

\* The position at which id's entry was first consumed.
ConsumedAt(id) == CHOOSE k \in 1..Len(consumed) : consumed[k] = id /\ \A j \in 1..(k - 1) : consumed[j] # id

\* C1: whatever order responses arrive in, a promise that resolves with a
\* texture resolves with the texture built from the response carrying its
\* own request id (made from its own URL), and an id whose response has been
\* handled has no entry left in the pending map.
C1_ResolvesWithOwnResponse ==
  /\ \A i \in Issued :
       (calls[i].state = "resolved" /\ calls[i].value.kind = "texture")
         => (calls[i].value.fromId = calls[i].id /\ calls[i].value.src = calls[i].url)
  /\ \A id \in ConsumedIds : id \notin DOMAIN pendingTextures

\* C1 witness: two requests through the same loader, the later one's response
\* handled first, both resolved with a texture, the pending map empty.
C1_Witness ==
  \E i, j \in Issued :
    /\ i < j
    /\ Extension(calls[i].url) = Extension(calls[j].url)
    /\ calls[i].url # calls[j].url
    /\ calls[i].state = "resolved" /\ calls[i].value.kind = "texture"
    /\ calls[j].state = "resolved" /\ calls[j].value.kind = "texture"
    /\ ConsumedAt(calls[j].id) < ConsumedAt(calls[i].id)
    /\ pendingTextures = <<>>

\* Loaders that have been instantiated (getLoader creates one on first use).
CreatedLoaders == {Extension(calls[i].url) : i \in Issued}

\* C2: once the tool has been destroyed no promise is left outstanding
\* (each was rejected) and every loader's worker has been terminated.
C2_DestroyRejectsOutstanding ==
  tool.CLIENT = "null"
    => /\ \A i \in Issued : calls[i].state # "pending"
       /\ CreatedLoaders \subseteq terminated

\* C4: no failure is thrown out of the message handler; every request whose
\* pending entry was consumed has had its promise settled.
C4_FailuresAreRejections ==
  /\ thrown = {}
  /\ \A i \in Issued : calls[i].id \in ConsumedIds => calls[i].state # "pending"

\* C5: request ids are pairwise distinct across all calls and loaders, an id
\* is never reissued while its entry is pending, and each id's entry is
\* consumed by at most one response.
C5_IdsUniqueAndConsumedOnce ==
  /\ \A i, j \in Issued : i # j => calls[i].id # calls[j].id
  /\ \A id \in DOMAIN pendingTextures : id < nextPendingTextureId
  /\ \A k, m \in 1..Len(consumed) : k # m => consumed[k] # consumed[m]

\* C5 witness: requests through two different loaders, and a second response
\* for an id whose entry an earlier response had already consumed.
C5_Witness ==
  /\ \E i, j \in Issued : Extension(calls[i].url) # Extension(calls[j].url)
  /\ \E id \in dropped : id \in ConsumedIds
  /\ Len(consumed) >= 2

\* A step in which onWorkerMessage handles the next response of loader l and
\* finds no entry for the response's id.
HandlesUnknownId(l) ==
  /\ toMain[l] # <<>>
  /\ toMain' = [toMain EXCEPT ![l] = Tail(@)]
  /\ Head(toMain[l]).id \notin DOMAIN pendingTextures

\* C24: a response whose id has no entry in the pending map is dropped: the
\* pending map is left as it was, no promise of any call is resolved or
\* rejected, no entry is consumed and no upload is attempted.
C24_UnknownIdDropped ==
  [][\A l \in Loaders :
       HandlesUnknownId(l)
         => /\ pendingTextures' = pendingTextures
            /\ calls' = calls
            /\ consumed' = consumed
            /\ thrown' = thrown
            /\ dropped' = dropped \cup {Head(toMain[l]).id}]_vars

\* C24 witness: a response was dropped while another request was outstanding,
\* and that request is still pending with its entry in the map.
C24_Witness ==
  /\ dropped # {}
  /\ \E i \in Issued :
       /\ calls[i].state = "pending"
       /\ calls[i].id \in DOMAIN pendingTextures
       /\ calls[i].id \notin dropped
       /\ \E d \in dropped : d > calls[i].id

\* The ids of the messages in flight between the coordinator and the workers.
RequestIdsInFlight == UNION {{m.id : m \in inbox[l]} : l \in Loaders}

ResponseIdsInFlight == UNION {{toMain[l][k].id : k \in 1..Len(toMain[l])} : l \in Loaders}

\* C28: a request's entry is in the pending map from the moment its message
\* is posted: every request a worker has not answered yet has its entry, an
\* answer in flight finds its entry unless an earlier answer for the same id
\* consumed it, and so no first answer is ever dropped.
C28_EntryRegisteredBeforeResponse ==
  /\ RequestIdsInFlight \subseteq DOMAIN pendingTextures
  /\ ResponseIdsInFlight \subseteq (DOMAIN pendingTextures \cup ConsumedIds)
  /\ dropped \subseteq ConsumedIds

\* C28 witness: a request's answer was matched to its entry and settled its
\* promise while a later request was still with its worker, nothing dropped.
C28_Witness ==
  /\ dropped = {}
  /\ \E i, j \in Issued :
       /\ i < j
       /\ calls[i].state = "resolved"
       /\ calls[i].id \in ConsumedIds
       /\ calls[j].id \in RequestIdsInFlight
       /\ calls[j].state = "pending"

----------------------------------------------------------------------------
(* Specification SpecPack: a worker transcodes the images of one file and   *)
(* packs them into the buffer it posts, step by step.                       *)

MaxLevels == 2
MaxSize == 2

\* max(layerCount, 1) * faceCount * levelDepth: a plain 2D texture or a pair
\* of images per level.
LevelImageCounts == {1, 2}

\* The bytes the transcoder produces for the k-th image when its transcoded
\* size is n; every image's bytes differ from every other's and from the
\* zeroes of a fresh Uint8Array.
TranscodedImage(k, n) == [b \in 1..n |-> 10 * k + b]

\* new Uint8Array(n)
Uint8Array(n) == [b \in 1..n |-> 0]

\* typedArray.set(data, offset), and a transcode into the view
\* new Uint8Array(buffer, offset, size)
SetAt(array, data, offset) ==
  [b \in 1..Len(array) |->
     IF b > offset /\ b <= offset + Len(data) THEN data[b - offset] ELSE array[b]]

\* A deliberately wrong variant of the running total: one byte of padding
\* after every image.
AddTranscodeSize_Padded(total, size) == total + size + 1

\* totalTranscodeSize += imgData.byteLength

AddTranscodeSize(total, size) == total + size

InitPack ==
  /\ \E levelCount \in 1..MaxLevels, levelImageCount \in LevelImageCounts :
       \E sizes \in [1..(levelCount * levelImageCount) -> 1..MaxSize],
          failAt \in 0..(levelCount * levelImageCount) :
         pk = [path |-> "start", levelCount |-> levelCount,
               levelImageCount |-> levelImageCount, sizes |-> sizes, failAt |-> failAt,
               mipLevels |-> <<>>, mipLevelData |-> <<>>, totalTranscodeSize |-> 0,
               transcodeData |-> <<>>, i |-> 0, posted |-> FALSE]
  /\ sel = Off
  /\ wk = Off
  /\ ProtocolOff
  /\ ClientOff

ImageCount == pk.levelCount * pk.levelImageCount

\* ktx-worker.js transcodeEtc1s: one pass of the inner loop, which transcodes
\* the next image of the current level (failAt names the image, if any, whose
\* transcode fails).
KtxTranscodeImage ==
  /\ pk.path \in {"start", "ktx"}
  /\ Len(pk.mipLevels) < ImageCount
  /\ LET k == Len(pk.mipLevels) + 1
         imgData == TranscodedImage(k, pk.sizes[k])
     IN IF pk.failAt = k
        THEN pk' = [pk EXCEPT !.path = "failed"]
        ELSE pk' = [pk EXCEPT
                      !.path = "ktx",
                      !.mipLevels = Append(@, [level |-> (k - 1) \div pk.levelImageCount,
                                               offset |-> pk.totalTranscodeSize,
                                               size |-> Len(imgData)]),
                      !.totalTranscodeSize = AddTranscodeSize(@, Len(imgData)),
                      !.mipLevelData = Append(@, imgData)]
  /\ UNCHANGED <<sel, wk, protocolVars, clientVars>>

\* transcodeEtc1s: the loops are over; allocate the one big array.
KtxAllocate ==
  /\ pk.path = "ktx"
  /\ Len(pk.mipLevels) = ImageCount
  /\ pk' = [pk EXCEPT !.path = "ktxcopy", !.transcodeData = Uint8Array(pk.totalTranscodeSize),
                      !.i = 0]
  /\ UNCHANGED <<sel, wk, protocolVars, clientVars>>

\* transcodeEtc1s: one pass of the copy loop.
KtxCopy ==
  /\ pk.path = "ktxcopy"
  /\ pk.i < Len(pk.mipLevels)
  /\ pk' = [pk EXCEPT !.transcodeData =
                        SetAt(@, pk.mipLevelData[pk.i + 1], pk.mipLevels[pk.i + 1].offset),
                      !.i = @ + 1]
  /\ UNCHANGED <<sel, wk, protocolVars, clientVars>>

\* transcodeEtc1s: post {id, buffer, format, mipLevels}.
KtxPost ==
  /\ pk.path = "ktxcopy"
  /\ pk.i = Len(pk.mipLevels)
  /\ pk' = [pk EXCEPT !.path = "ktxposted", !.posted = TRUE]
  /\ UNCHANGED <<sel, wk, protocolVars, clientVars>>

\* Basis transcode(): one pass of the loop gathering each level's size
\* (image 0 only, so one image per level).
BasisGather ==
  /\ pk.path \in {"start", "basis"}
  /\ pk.levelImageCount = 1
  /\ Len(pk.mipLevels) < pk.levelCount
  /\ LET mipLevel == Len(pk.mipLevels)
         transcodeSize == pk.sizes[mipLevel + 1]
     IN pk' = [pk EXCEPT
                 !.path = "basis",
                 !.mipLevels = Append(@, [level |-> mipLevel,
                                          offset |-> pk.totalTranscodeSize,
                                          size |-> transcodeSize]),
                 !.totalTranscodeSize = @ + transcodeSize]
  /\ UNCHANGED <<sel, wk, protocolVars, clientVars>>

\* transcode(): allocate a buffer large enough for all levels.
BasisAllocate ==
  /\ pk.path = "basis"
  /\ Len(pk.mipLevels) = pk.levelCount
  /\ pk' = [pk EXCEPT !.path = "basiswrite", !.transcodeData = Uint8Array(pk.totalTranscodeSize),
                      !.i = 0]
  /\ UNCHANGED <<sel, wk, protocolVars, clientVars>>

\* transcode(): transcode the next level into its section of the buffer.
BasisTranscodeImage ==
  /\ pk.path = "basiswrite"
  /\ pk.i < Len(pk.mipLevels)
  /\ LET mipLevel == pk.mipLevels[pk.i + 1]
     IN IF pk.failAt = pk.i + 1
        THEN pk' = [pk EXCEPT !.path = "failed"]
        ELSE pk' = [pk EXCEPT
                      !.transcodeData =
                         SetAt(@, TranscodedImage(mipLevel.level + 1, mipLevel.size), mipLevel.offset),
                      !.i = @ + 1]
  /\ UNCHANGED <<sel, wk, protocolVars, clientVars>>

\* transcode(): post {id, buffer, format, mipLevels}.
BasisPost ==
  /\ pk.path = "basiswrite"
  /\ pk.i = Len(pk.mipLevels)
  /\ pk' = [pk EXCEPT !.path = "basisposted", !.posted = TRUE]
  /\ UNCHANGED <<sel, wk, protocolVars, clientVars>>

NextPack ==
  \/ KtxTranscodeImage \/ KtxAllocate \/ KtxCopy \/ KtxPost
  \/ BasisGather \/ BasisAllocate \/ BasisTranscodeImage \/ BasisPost

SpecPack == InitPack /\ [][NextPack]_vars

RECURSIVE SumOfSizes(_, _)
SumOfSizes(mipLevels, n) ==
  IF n = 0 THEN 0 ELSE mipLevels[n].size + SumOfSizes(mipLevels, n - 1)

\* buffer.slice(offset, offset + size)
Slice(buffer, offset, size) == SubSeq(buffer, offset + 1, offset + size)

\* C10: in a posted mip-level table the first offset is 0, each later offset
\* is the previous offset plus the previous size, levels never decrease along
\* the table, the buffer is as long as the sizes' sum, and slicing the buffer
\* by an entry's (offset, size) gives exactly the bytes transcoded for it.
C10_PackedContiguously ==
  pk.posted =>
    LET t == pk.mipLevels
    IN /\ t[1].offset = 0
       /\ \A k \in 2..Len(t) :
            /\ t[k].offset = t[k - 1].offset + t[k - 1].size
            /\ t[k].level >= t[k - 1].level
       /\ pk.path = "basisposted" => \A k \in 1..Len(t) : t[k].level = k - 1
       /\ Len(pk.transcodeData) = SumOfSizes(t, Len(t))
       /\ \A k \in 1..Len(t) :
            Slice(pk.transcodeData, t[k].offset, t[k].size) = TranscodedImage(k, pk.sizes[k])

\* C10 witness: a posted table of two levels with two images each, of sizes
\* that are not all equal.
C10_Witness ==
  /\ pk.path = "ktxposted"
  /\ Len(pk.mipLevels) = 4
  /\ pk.mipLevels[1].size # pk.mipLevels[2].size
  /\ pk.mipLevels[4].offset > 0

----------------------------------------------------------------------------
(* Specification SpecDims: the width and height a KTX2 worker records for   *)
(* each mip level of a texture with a given base size.                      *)

MaxDim == 6
MaxLevelCount == 4

Max(a, b) == IF a >= b THEN a ELSE b

RECURSIVE Pow2(_)
Pow2(n) == IF n = 0 THEN 1 ELSE 2 * Pow2(n - 1)

\* Math.ceil(a / b) for positive integers
CeilDiv(a, b) == (a + b - 1) \div b

\* x >> n on a non-negative 32-bit integer (the shift count is taken mod 32)
ShiftRight(x, n) == x \div Pow2(n % 32)

\* setMipLevel: Math.max(1, options.width || this.textureData.width >> level);
\* optionsDim is 0 when the caller passes no such option.
SetMipLevelDim(optionsDim, textureDim, level) ==
  Max(1, IF optionsDim # 0 THEN optionsDim ELSE ShiftRight(textureDim, level))

\* ktx-worker.js: levelWidth = Math.max(1, Math.ceil(levelWidth / 2))
NextLevelDim(levelDim) == Max(1, CeilDiv(levelDim, 2))

InitDims ==
  /\ \E w \in 1..MaxDim, h \in 1..MaxDim, levelCount \in 1..MaxLevelCount :
       dm = [path |-> "start", pixelWidth |-> w, pixelHeight |-> h, levelCount |-> levelCount,
             levelIndex |-> 0, levelWidth |-> w, levelHeight |-> Max(h, 1),
             mipLevels |-> <<>>]
  /\ sel = Off
  /\ wk = Off
  /\ pk = Off
  /\ ProtocolOff
  /\ tl = Off
  /\ cl = Off
  /\ mg = Off

\* ktx/ktx-worker.js transcodeEtc1s: one pass of the level loop, which records
\* the running levelWidth and levelHeight and then halves them.
KtxWorkerLevel ==
  /\ dm.path \in {"start", "ktxworker"}
  /\ dm.levelIndex < dm.levelCount
  /\ dm' = [dm EXCEPT
              !.path = "ktxworker",
              !.mipLevels = Append(@, [level |-> dm.levelIndex, width |-> dm.levelWidth,
                                       height |-> dm.levelHeight]),
              !.levelWidth = NextLevelDim(@),
              !.levelHeight = NextLevelDim(@),
              !.levelIndex = @ + 1]
  /\ UNCHANGED <<sel, wk, pk, protocolVars, cl, mg, tl>>

\* The KTX2 worker built on WorkerTextureData: one pass of the level loop,
\* which calls textureImage.setMipLevel(levelIndex, bufferData) on a texture
\* constructed with the base size.
KtxSetMipLevel ==
  /\ dm.path \in {"start", "ktx"}
  /\ dm.levelIndex < dm.levelCount
  /\ dm' = [dm EXCEPT
              !.path = "ktx",
              !.mipLevels = Append(@, [level |-> dm.levelIndex,
                                       width |-> SetMipLevelDim(0, Max(1, dm.pixelWidth), dm.levelIndex),
                                       height |-> SetMipLevelDim(0, Max(1, dm.pixelHeight), dm.levelIndex)]),
              !.levelIndex = @ + 1]
  /\ UNCHANGED <<sel, wk, pk, protocolVars, cl, mg, tl>>

NextDims == KtxWorkerLevel \/ KtxSetMipLevel

SpecDims == InitDims /\ [][NextDims]_vars

\* max(1, floor(dim / 2^n))
MipDim(dim, n) == Max(1, dim \div Pow2(n))

\* C11: every recorded level n of a texture with base size (w, h) has width
\* max(1, floor(w / 2^n)) and height max(1, floor(h / 2^n)).
C11_LevelDimsAreFloorHalvings ==
  \A k \in 1..Len(dm.mipLevels) :
    /\ dm.mipLevels[k].width = MipDim(dm.pixelWidth, dm.mipLevels[k].level)
    /\ dm.mipLevels[k].height = MipDim(dm.pixelHeight, dm.mipLevels[k].level)

----------------------------------------------------------------------------
(* Specification SpecClient: one texture-creation call on a WebGL or WebGPU *)
(* client, from a pixel source or from packed level data.                   *)

MaxUploadLevels == 3

\* Widths and heights of level 0.
ClientDims == {1, 3, 8, 10, 12, 64, 256}

\* Format identifiers a call may name: registered with both backends, with
\* one of them only, or with neither.
ClientFormats ==
  {"rgba8unorm", "bc1-rgba-unorm", "bc3-rgba-unorm", "bc1-rgb-unorm", "etc1-rgb-unorm",
   "r8unorm"}

\* GL_FORMAT_MAP: the entries for ClientFormats (compressed, texStorage).
GL_FORMAT_MAP ==
  [f \in {"rgba8unorm", "bc1-rgb-unorm", "bc3-rgba-unorm", "etc1-rgb-unorm"} |->
     CASE f = "rgba8unorm"     -> [compressed |-> FALSE, texStorage |-> FALSE]
       [] f = "bc1-rgb-unorm"  -> [compressed |-> TRUE,  texStorage |-> TRUE]
       [] f = "bc3-rgba-unorm" -> [compressed |-> TRUE,  texStorage |-> FALSE]
       [] f = "etc1-rgb-unorm" -> [compressed |-> TRUE,  texStorage |-> FALSE]]

\* FORMAT_BLOCK_SIZE: the value stored for each key.
BlockSize ==
  [f \in FORMAT_BLOCK_SIZE |->
     CASE f = "rgba8unorm"     -> [byteLength |-> 4,  width |-> 1, height |-> 1, canGenerateMipmaps |-> TRUE]
       [] f = "bc1-rgba-unorm" -> [byteLength |-> 8,  width |-> 4, height |-> 4, canGenerateMipmaps |-> FALSE]
       [] f = "bc2-rgba-unorm" -> [byteLength |-> 16, width |-> 4, height |-> 4, canGenerateMipmaps |-> FALSE]
       [] f = "bc3-rgba-unorm" -> [byteLength |-> 16, width |-> 4, height |-> 4, canGenerateMipmaps |-> FALSE]
       [] f = "bc7-rgba-unorm" -> [byteLength |-> 16, width |-> 4, height |-> 4, canGenerateMipmaps |-> FALSE]]

\* The texel-block geometry of the data a caller supplies in a format (used
\* only to size the input levels): 4x4 blocks of 8 or 16 bytes for the
\* block-compressed formats, single texels otherwise.
DataBlock(format) ==
  CASE format \in {"bc1-rgba-unorm", "bc1-rgb-unorm", "etc1-rgb-unorm"} ->
         [byteLength |-> 8, width |-> 4, height |-> 4]
    [] format = "bc3-rgba-unorm" -> [byteLength |-> 16, width |-> 4, height |-> 4]
    [] format = "rgba8unorm" -> [byteLength |-> 4, width |-> 1, height |-> 1]
    [] OTHER -> [byteLength |-> 1, width |-> 1, height |-> 1]

\* The packed level table {level, offset, size, width, height} a worker posts
\* for n levels of a w x h texture, as finishTexture hands it to the client.
RECURSIVE LevelTable(_, _, _, _)
LevelTable(format, w, h, n) ==
  IF n = 0 THEN <<>>
  ELSE LET prev == LevelTable(format, w, h, n - 1)
           b == DataBlock(format)
           lw == MipDim(w, n - 1)
           lh == MipDim(h, n - 1)
       IN Append(prev,
                 [level |-> n - 1,
                  offset |-> IF n = 1 THEN 0 ELSE prev[n - 1].offset + prev[n - 1].size,
                  size |-> CeilDiv(lw, b.width) * CeilDiv(lh, b.height) * b.byteLength,
                  width |-> lw, height |-> lh])

RECURSIVE FloorLog2(_)
FloorLog2(n) == IF n <= 1 THEN 0 ELSE 1 + FloorLog2(n \div 2)

\* calculateMipLevels: Math.floor(Math.log2(Math.max(width, height))) + 1
calculateMipLevels(width, height) == FloorLog2(Max(width, height)) + 1

\* isPowerOfTwo: (n & (n - 1)) === 0
isPowerOfTwo(n) == \E k \in 0..30 : n = Pow2(k)

\* What one call did.  textures and buffers count the GPU textures and
\* staging buffers created, allocatedLevels is the mip level count storage
\* was allocated with (0 when none was), writes are the copies into staging
\* memory, copies the buffer-to-texture (or texture upload) commands.
ClientIdle(isWebGL2, deviceLive, deviceAccepts, format, w, h, generateMipmaps, n) ==
  [path |-> "idle", op |-> "none",
   isWebGL2 |-> isWebGL2, deviceLive |-> deviceLive, deviceAccepts |-> deviceAccepts,
   format |-> format, width |-> w, height |-> h, generateMipmaps |-> generateMipmaps,
   mipLevels |-> LevelTable(format, w, h, n),
   outcome |-> "none", error |-> NoError, textures |-> 0, allocatedLevels |-> 0, buffers |-> 0,
   plan |-> <<>>, writes |-> <<>>, copies |-> <<>>, mipmapsGenerated |-> FALSE,
   resultMipLevels |-> 0]

InitClient ==
  /\ \E isWebGL2 \in BOOLEAN, deviceLive \in BOOLEAN, deviceAccepts \in BOOLEAN,
        format \in ClientFormats, w \in ClientDims, h \in ClientDims,
        generateMipmaps \in BOOLEAN, n \in 1..MaxUploadLevels :
       cl = ClientIdle(isWebGL2, deviceLive, deviceAccepts, format, w, h, generateMipmaps, n)
  /\ sel = Off
  /\ wk = Off
  /\ pk = Off
  /\ ProtocolOff
  /\ tl = Off
  /\ dm = Off
  /\ mg = Off

\* The call threw: nothing further is done and no result is returned.
ClientThrew(c, message) == [c EXCEPT !.outcome = "threw", !.error = message]

\* An upload command: which mip index it targets, and where its source
\* starts (for copyBufferToTexture: the staging buffer and the offset in it).
UploadCommand(mipLevel, buffer, offset, bytesPerRow) ==
  [mipLevel |-> mipLevel, buffer |-> buffer, offset |-> offset, bytesPerRow |-> bytesPerRow]

\* WebGL generateMipmaps after the WebGL 1.0 power-of-two rule.
WebGLCanGenerate(c, generateMipmaps) ==
  IF ~c.isWebGL2 /\ generateMipmaps
  THEN isPowerOfTwo(c.width) /\ isPowerOfTwo(c.height)
  ELSE generateMipmaps

\* WebGLTextureClient.textureFromImageBitmap.  On WebGL 1.0 the texImage2D
\* call names the undeclared glType, which throws after the texture object
\* was created and before any storage is allocated.
WebGLFromImageBitmap(c) ==
  LET generateMipmaps == WebGLCanGenerate(c, c.generateMipmaps)
      mipLevels == IF generateMipmaps THEN calculateMipLevels(c.width, c.height) ELSE 1
  IN IF c.format \notin DOMAIN GL_FORMAT_MAP
     THEN ClientThrew(c, "No matching WebGL format")
     ELSE IF GL_FORMAT_MAP[c.format].compressed
     THEN ClientThrew(c, "Cannot create texture from image with compressed format")
     ELSE IF ~c.isWebGL2
     THEN [ClientThrew(c, "glType is not defined") EXCEPT !.textures = 1]
     ELSE [c EXCEPT !.outcome = "returned", !.textures = 1, !.allocatedLevels = mipLevels,
                    !.copies = <<UploadCommand(0, 0, 0, 0)>>,
                    !.mipmapsGenerated = (mipLevels > 1),
                    !.resultMipLevels = mipLevels]

\* WebGLTextureClient.textureFromLevelData.  A compressed format uploaded
\* without texStorage reaches compressedTexImage2D(gl.TEXTURE_2D, i, ...) with
\* the undeclared i, which throws.
WebGLFromLevelData(c) ==
  IF c.format \notin DOMAIN GL_FORMAT_MAP
  THEN ClientThrew(c, "No matching WebGL format")
  ELSE LET glFormat == GL_FORMAT_MAP[c.format]
           generateMipmaps ==
             WebGLCanGenerate(c, IF glFormat.compressed THEN FALSE ELSE c.generateMipmaps)
           mipLevelCount ==
             IF Len(c.mipLevels) > 1 THEN Len(c.mipLevels)
             ELSE IF generateMipmaps THEN calculateMipLevels(c.width, c.height) ELSE 1
           useTexStorage == c.isWebGL2 /\ (~glFormat.compressed \/ glFormat.texStorage)
       IN IF glFormat.compressed /\ ~useTexStorage
          THEN [ClientThrew(c, "i is not defined") EXCEPT !.textures = 1]
          ELSE [c EXCEPT
                  !.outcome = "returned", !.textures = 1, !.allocatedLevels = mipLevelCount,
                  !.copies = [k \in 1..Len(c.mipLevels) |->
                                UploadCommand(c.mipLevels[k].level, 0, c.mipLevels[k].offset, 0)],
                  !.mipmapsGenerated = (generateMipmaps /\ Len(c.mipLevels) = 1),
                  !.resultMipLevels = mipLevelCount]

\* bytesPerRow has to be a multiple of 256.
RowAlignment == 256

\* A deliberately wrong variant of the row padding: rows are left unpadded.
AlignedBytesPerRow_Unpadded(bytesPerImageRow) == bytesPerImageRow

\* Math.ceil(bytesPerImageRow / 256) * 256
AlignedBytesPerRow(bytesPerImageRow) == CeilDiv(bytesPerImageRow, RowAlignment) * RowAlignment

\* A deliberately wrong variant of the fast-path test: a single block row is
\* not recognised.
CanFastCopy_PaddingOnly(bytesPerRow, bytesPerImageRow, blockRows) ==
  bytesPerRow = bytesPerImageRow

\* bytesPerRow == bytesPerImageRow || blockRows == 1
CanFastCopy(bytesPerRow, bytesPerImageRow, blockRows) ==
  bytesPerRow = bytesPerImageRow \/ blockRows = 1

\* One entry of levelCopyRanges, for a level whose row geometry is known;
\* buffer names the staging buffer and textureDataOffset the offset in it.
LevelCopyRange(mipLevel, bytesPerImageRow, blockRows, buffer, textureDataOffset) ==
  LET bytesPerRow == AlignedBytesPerRow(bytesPerImageRow)
  IN [level |-> mipLevel.level,
      bytesPerImageRow |-> bytesPerImageRow,
      blockRows |-> blockRows,
      bytesPerRow |-> bytesPerRow,
      canFastCopy |-> CanFastCopy(bytesPerRow, bytesPerImageRow, blockRows),
      buffer |-> buffer,
      textureDataOffset |-> textureDataOffset,
      textureDataSize |-> Max(mipLevel.size, bytesPerRow * blockRows)]

\* The copies of one level's bytes into its range of staging memory: one
\* set() on the fast path, one per block row on the slow path.
LevelWrites(mipLevel, levelRange) ==
  IF levelRange.canFastCopy
  THEN <<[level |-> mipLevel.level, src |-> mipLevel.offset, len |-> mipLevel.size,
          buffer |-> levelRange.buffer, dst |-> levelRange.textureDataOffset]>>
  ELSE [i \in 1..levelRange.blockRows |->
          [level |-> mipLevel.level,
           src |-> mipLevel.offset + levelRange.bytesPerImageRow * (i - 1),
           len |-> levelRange.bytesPerImageRow,
           buffer |-> levelRange.buffer,
           dst |-> levelRange.textureDataOffset + levelRange.bytesPerRow * (i - 1)]]

RECURSIVE AllWrites(_, _, _)
AllWrites(mipLevels, plan, k) ==
  IF k = 0 THEN <<>>
  ELSE AllWrites(mipLevels, plan, k - 1) \o LevelWrites(mipLevels[k], plan[k])

\* levelCopyRanges of the current WebGPU client: every level's range follows
\* the previous one in the single staging buffer (textureBufferSize).
RECURSIVE LevelCopyRanges(_, _, _)
LevelCopyRanges(blockSize, mipLevels, k) ==
  IF k = 0 THEN <<>>
  ELSE LET prev == LevelCopyRanges(blockSize, mipLevels, k - 1)
           mipLevel == mipLevels[k]
           textureBufferSize ==
             IF k = 1 THEN 0 ELSE prev[k - 1].textureDataOffset + prev[k - 1].textureDataSize
       IN Append(prev,
                 LevelCopyRange(mipLevel,
                                CeilDiv(mipLevel.width, blockSize.width) * blockSize.byteLength,
                                CeilDiv(mipLevel.height, blockSize.height),
                                1, textureBufferSize))

\* WebGPUTextureClient.textureFromImageBitmap (textureFromImageElement ends in
\* the same call).  The format is handed to createTexture unexamined and the
\* result is built with a literal 1 for mipLevels.
WebGPUFromImageBitmap(c) ==
  IF ~c.deviceLive THEN [c EXCEPT !.outcome = "null"]
  ELSE LET mipLevelCount ==
             IF c.generateMipmaps THEN calculateMipLevels(c.width, c.height) ELSE 1
       IN IF ~c.deviceAccepts THEN ClientThrew(c, "createTexture failed")
          ELSE [c EXCEPT !.outcome = "returned", !.textures = 1,
                         !.allocatedLevels = mipLevelCount,
                         !.copies = <<UploadCommand(0, 0, 0, 0)>>,
                         !.mipmapsGenerated = c.generateMipmaps,
                         !.resultMipLevels = 1]

\* WebGPUTextureClient.textureFromLevelData.  copyBufferToTexture is given
\* the buffer and bytesPerRow only, so every copy reads from offset 0.
WebGPUFromLevelData(c) ==
  IF ~c.deviceLive THEN [c EXCEPT !.outcome = "null"]
  ELSE IF c.format \notin FORMAT_BLOCK_SIZE
  THEN ClientThrew(c, "No block size information for format")
  ELSE LET blockSize == BlockSize[c.format]
           generateMipmaps == c.generateMipmaps /\ blockSize.canGenerateMipmaps
           mipLevelCount ==
             IF Len(c.mipLevels) > 1 THEN Len(c.mipLevels)
             ELSE IF generateMipmaps THEN calculateMipLevels(c.width, c.height) ELSE 1
           levelCopyRanges == LevelCopyRanges(blockSize, c.mipLevels, Len(c.mipLevels))
       IN IF ~c.deviceAccepts THEN ClientThrew(c, "createTexture failed")
          ELSE [c EXCEPT
                  !.outcome = "returned", !.textures = 1, !.allocatedLevels = mipLevelCount,
                  !.buffers = 1,
                  !.plan = levelCopyRanges,
                  !.writes = AllWrites(c.mipLevels, levelCopyRanges, Len(c.mipLevels)),
                  !.copies = [k \in 1..Len(c.mipLevels) |->
                                UploadCommand(c.mipLevels[k].level, 1, 0,
                                              levelCopyRanges[k].bytesPerRow)],
                  !.mipmapsGenerated = generateMipmaps,
                  !.resultMipLevels = mipLevelCount]

\* The switch on format of the earlier WebGPU client: bytesPerImageRow and
\* blockRows stay 0 for a format it has no case for.
SwitchRowGeometry(format, mipLevel) ==
  CASE format = "rgba8unorm" ->
         [bytesPerImageRow |-> mipLevel.width * 4, blockRows |-> mipLevel.height]
    [] format = "bc1-rgba-unorm" ->
         [bytesPerImageRow |-> CeilDiv(mipLevel.width, 4) * 8,
          blockRows |-> CeilDiv(mipLevel.height, 4)]
    [] format \in {"bc2-rgba-unorm", "bc3-rgba-unorm", "bc7-rgba-unorm"} ->
         [bytesPerImageRow |-> CeilDiv(mipLevel.width, 4) * 16,
          blockRows |-> CeilDiv(mipLevel.height, 4)]
    [] OTHER -> [bytesPerImageRow |-> 0, blockRows |-> 0]

\* textureFromImageBitmap of the earlier WebGPU client: no device test.
WebGPUPrevFromImageBitmap(c) ==
  LET mipLevelCount == IF c.generateMipmaps THEN calculateMipLevels(c.width, c.height) ELSE 1
  IN IF ~c.deviceAccepts THEN ClientThrew(c, "createTexture failed")
     ELSE [c EXCEPT !.outcome = "returned", !.textures = 1,
                    !.allocatedLevels = mipLevelCount,
                    !.copies = <<UploadCommand(0, 0, 0, 0)>>,
                    !.mipmapsGenerated = c.generateMipmaps,
                    !.resultMipLevels = 1]

\* textureFromLevelData of the earlier WebGPU client: no format test, and one
\* staging buffer per level, each read from its start.
WebGPUPrevFromLevelData(c) ==
  LET generateMipmaps == IF c.format # "rgba8unorm" THEN FALSE ELSE c.generateMipmaps
      mipLevelCount ==
        IF Len(c.mipLevels) > 1 THEN Len(c.mipLevels)
        ELSE IF generateMipmaps THEN calculateMipLevels(c.width, c.height) ELSE 1
      ranges == [k \in 1..Len(c.mipLevels) |->
                   LET g == SwitchRowGeometry(c.format, c.mipLevels[k])
                   IN LevelCopyRange(c.mipLevels[k], g.bytesPerImageRow, g.blockRows, k, 0)]
  IN IF ~c.deviceAccepts THEN ClientThrew(c, "createTexture failed")
     ELSE [c EXCEPT
             !.outcome = "returned", !.textures = 1, !.allocatedLevels = mipLevelCount,
             !.buffers = Len(c.mipLevels),
             !.plan = ranges,
             !.writes = AllWrites(c.mipLevels, ranges, Len(c.mipLevels)),
             !.copies = [k \in 1..Len(c.mipLevels) |->
                           UploadCommand(c.mipLevels[k].level, k, 0, ranges[k].bytesPerRow)],
             !.mipmapsGenerated = generateMipmaps,
             !.resultMipLevels = mipLevelCount]

\* One call on a fresh client; path names the backend, op the entry point.
ClientCall(path, op, after) ==
  /\ cl.path = "idle"
  /\ cl' = [after EXCEPT !.path = path, !.op = op]
  /\ UNCHANGED <<sel, wk, pk, protocolVars, dm, mg, tl>>

WebGLTextureFromImageBitmap == ClientCall("webgl", "image", WebGLFromImageBitmap(cl))

WebGLTextureFromLevelData == ClientCall("webgl", "data", WebGLFromLevelData(cl))

WebGPUTextureFromImageBitmap == ClientCall("webgpu", "image", WebGPUFromImageBitmap(cl))

WebGPUTextureFromLevelData == ClientCall("webgpu", "data", WebGPUFromLevelData(cl))

WebGPUPrevTextureFromImageBitmap ==
  ClientCall("webgpu-prev", "image", WebGPUPrevFromImageBitmap(cl))

WebGPUPrevTextureFromLevelData ==
  ClientCall("webgpu-prev", "data", WebGPUPrevFromLevelData(cl))

NextClient ==
  \/ WebGLTextureFromImageBitmap
  \/ WebGLTextureFromLevelData
  \/ WebGPUTextureFromImageBitmap
  \/ WebGPUTextureFromLevelData
  \/ WebGPUPrevTextureFromImageBitmap
  \/ WebGPUPrevTextureFromLevelData

SpecClient == InitClient /\ [][NextClient]_vars

\* ---- properties of SpecClient ----

ClientReturned == cl.path # "idle" /\ cl.outcome = "returned"

\* A call the backend has no reason to refuse on the device's side.
DeviceUsable == cl.deviceAccepts /\ (cl.path = "webgpu" => cl.deviceLive)

\* The format identifiers registered with the backend that took the call.
RegisteredFormats ==
  IF cl.path = "webgl" THEN DOMAIN GL_FORMAT_MAP ELSE FORMAT_BLOCK_SIZE

\* The format stores texel blocks rather than single texels.
IsCompressedFormat(format) == format \notin {"rgba8unorm", "r8unorm"}

\* C12: a texture created from a pixel source of size w x h in an
\* uncompressed registered format is allocated with floor(log2(max(w,h))) + 1
\* mip levels when mipmaps are wanted and with exactly 1 when they are not,
\* on the WebGL and on the WebGPU backend.
C12_PixelSourceLevelCount ==
  (cl.path # "idle" /\ cl.op = "image" /\ cl.format = "rgba8unorm" /\ DeviceUsable)
    => /\ cl.textures = 1
       /\ cl.allocatedLevels =
            IF cl.generateMipmaps THEN FloorLog2(Max(cl.width, cl.height)) + 1 ELSE 1

\* C13: the mipLevels of a returned result is the number of mip levels the
\* texture was allocated with, on the pixel-source and the texture-data path.
C13_ResultReportsAllocatedLevels ==
  ClientReturned => cl.resultMipLevels = cl.allocatedLevels

\* C14: a pixel-source call naming a compressed format fails with a
\* descriptive error and creates no GPU texture, on both backends.
C14_CompressedPixelSourceFails ==
  (cl.path # "idle" /\ cl.op = "image" /\ IsCompressedFormat(cl.format) /\ DeviceUsable)
    => /\ cl.outcome = "threw"
       /\ cl.error \in {"Cannot create texture from image with compressed format",
                        "No matching WebGL format"}
       /\ cl.textures = 0

\* C15: a texture-data call naming a format that is not registered with the
\* backend fails with an unknown-format error, and neither a GPU texture nor
\* a staging buffer is created for it.
C15_UnregisteredFormatFails ==
  (cl.path # "idle" /\ cl.op = "data" /\ cl.format \notin RegisteredFormats /\ DeviceUsable)
    => /\ cl.outcome = "threw"
       /\ cl.error \in {"No matching WebGL format", "No block size information for format"}
       /\ cl.textures = 0
       /\ cl.buffers = 0

\* A texture-data upload through staging memory that went through.
StagedUpload ==
  /\ cl.path \in {"webgpu", "webgpu-prev"}
  /\ cl.op = "data"
  /\ cl.outcome = "returned"
  /\ cl.format \in FORMAT_BLOCK_SIZE

\* n rounded up to a multiple of m
RoundUp(n, m) == ((n + m - 1) \div m) * m

\* C16: for every level the planner uses unpadded row bytes
\* ceil(w / blockWidth) * blockBytes, bytesPerRow the smallest multiple of 256
\* not below that, rowCount ceil(h / blockHeight), and reserves at least
\* bytesPerRow * rowCount bytes; the values are those of the level with its
\* width and height rounded up to whole blocks.
C16_PlanGeometry ==
  StagedUpload =>
    \A k \in 1..Len(cl.plan) :
      LET b == BlockSize[cl.format]
          mipLevel == cl.mipLevels[k]
          r == cl.plan[k]
          unpadded == ((mipLevel.width + b.width - 1) \div b.width) * b.byteLength
      IN /\ r.bytesPerImageRow = unpadded
         /\ r.bytesPerRow % 256 = 0
         /\ r.bytesPerRow >= unpadded
         /\ r.bytesPerRow - 256 < unpadded
         /\ r.blockRows = (mipLevel.height + b.height - 1) \div b.height
         /\ r.textureDataSize >= r.bytesPerRow * r.blockRows
         /\ r.bytesPerImageRow = (RoundUp(mipLevel.width, b.width) \div b.width) * b.byteLength
         /\ r.blockRows = RoundUp(mipLevel.height, b.height) \div b.height

\* A 10x10 BC1 level was planned: 3 block columns and rows, as for 12x12.
C16_Witness ==
  /\ StagedUpload
  /\ cl.format = "bc1-rgba-unorm"
  /\ cl.width = 10 /\ cl.height = 10
  /\ cl.plan[1].bytesPerImageRow = 24
  /\ cl.plan[1].bytesPerRow = 256
  /\ cl.plan[1].blockRows = 3
  /\ cl.plan[1].textureDataSize = 768

\* The writes into staging memory that carry level k.
WritesOf(k) ==
  LET idx == {i \in 1..Len(cl.writes) : cl.writes[i].level = cl.mipLevels[k].level}
  IN [i \in idx |-> cl.writes[i]]

\* C17: a level is copied in one piece exactly when its padded bytesPerRow
\* equals its unpadded row bytes or it has a single block row; every other
\* level is copied row by row, source row i landing bytesPerRow * i bytes
\* into the level's staging range.
C17_FastPathChoice ==
  StagedUpload =>
    \A k \in 1..Len(cl.plan) :
      LET r == cl.plan[k]
          mipLevel == cl.mipLevels[k]
          ws == WritesOf(k)
          first == CHOOSE i \in DOMAIN ws : \A j \in DOMAIN ws : i <= j
      IN /\ r.canFastCopy <=> (r.bytesPerRow = r.bytesPerImageRow \/ r.blockRows = 1)
         /\ (r.bytesPerRow = r.bytesPerImageRow \/ r.blockRows = 1)
              => /\ Cardinality(DOMAIN ws) = 1
                 /\ ws[first].src = mipLevel.offset
                 /\ ws[first].len = mipLevel.size
                 /\ ws[first].dst = r.textureDataOffset
         /\ ~(r.bytesPerRow = r.bytesPerImageRow \/ r.blockRows = 1)
              => /\ Cardinality(DOMAIN ws) = r.blockRows
                 /\ \A i \in DOMAIN ws :
                      /\ ws[i].src = mipLevel.offset + r.bytesPerImageRow * (i - first)
                      /\ ws[i].len = r.bytesPerImageRow
                      /\ ws[i].dst = r.textureDataOffset + r.bytesPerRow * (i - first)

\* A narrow compressed level with two block rows went row by row, and a
\* later level of the same upload, one block row high, went in one piece.
C17_Witness ==
  /\ StagedUpload
  /\ cl.format = "bc1-rgba-unorm"
  /\ cl.width = 8 /\ cl.height = 8
  /\ Len(cl.plan) >= 2
  /\ ~cl.plan[1].canFastCopy
  /\ \E i \in 1..Len(cl.writes) : cl.writes[i].level = 0 /\ cl.writes[i].dst = 256
  /\ cl.plan[2].canFastCopy
  /\ cl.plan[2].bytesPerRow # cl.plan[2].bytesPerImageRow

\* C18: an upload of N levels through one staging buffer issues one copy per
\* level, the copy for level L targets mip index L and reads the staging
\* buffer from the offset planned for level L.
C18_CopyReadsPlannedOffset ==
  (StagedUpload /\ cl.buffers = 1) =>
    /\ Len(cl.copies) = Len(cl.mipLevels)
    /\ \A k \in 1..Len(cl.copies) :
         /\ cl.copies[k].mipLevel = cl.mipLevels[k].level
         /\ cl.copies[k].buffer = cl.plan[k].buffer
         /\ cl.copies[k].offset = cl.plan[k].textureDataOffset

\* The backend can synthesise mip levels for the texture of this call.
CanGenerateMipmaps ==
  IF cl.path = "webgl"
  THEN /\ ~GL_FORMAT_MAP[cl.format].compressed
       /\ (cl.isWebGL2 \/ (isPowerOfTwo(cl.width) /\ isPowerOfTwo(cl.height)))
  ELSE cl.format = "rgba8unorm"

\* C19: after a texture-data upload mipmap synthesis is invoked exactly when
\* the data has one level, the format can generate mipmaps and mipmaps were
\* requested; with more than one level supplied it is never invoked.
C19_SynthesisOnlyForSingleLevel ==
  (ClientReturned /\ cl.op = "data" /\ cl.format \in RegisteredFormats) =>
    (cl.mipmapsGenerated <=>
       (Len(cl.mipLevels) = 1 /\ CanGenerateMipmaps /\ cl.generateMipmaps))

\* ---- WebGPUMipmapGenerator: the per-format pipeline cache ----

MaxMipmapCalls == 3

\* Pixel formats generateMipmap is called with.
MipmapFormats == {"rgba8unorm", "bgra8unorm"}

\* No pipeline: the value of this.pipelines[format] for an absent key.
NoPipeline == [id |-> 0]

Pipeline(n) == [id |-> n]

\* A deliberately wrong variant of the cache lookup: it never finds anything.
CachedPipeline_Miss(pipelines, format) == NoPipeline

\* let pipeline = this.pipelines[format]
CachedPipeline(pipelines, format) == pipelines[format]

\* new WebGPUMipmapGenerator(device): an empty cache, shaders compiling.
\* created counts the createRenderPipeline calls that returned, per format;
\* a call's waitedWith is the number of calls that were waiting on
\* shadersReady when it started.
InitMipmap ==
  /\ mg = [path |-> "mipmap",
           shadersReady |-> "pending",
           pipelines |-> [f \in MipmapFormats |-> NoPipeline],
           created |-> [f \in MipmapFormats |-> 0],
           calls |-> <<>>]
  /\ sel = Off
  /\ wk = Off
  /\ pk = Off
  /\ ProtocolOff
  /\ tl = Off
  /\ dm = Off
  /\ cl = Off

MipmapUnchanged == UNCHANGED <<sel, wk, pk, protocolVars, dm, cl, tl>>

Awaiting == {i \in 1..Len(mg.calls) : mg.calls[i].pc = "await"}

\* generateMipmap(texture, textureDescriptor), up to the await in
\* getMipmapPipeline.
GenerateMipmap(format) ==
  /\ Len(mg.calls) < MaxMipmapCalls
  /\ mg' = [mg EXCEPT !.calls =
              Append(@, [format |-> format, pc |-> "await", pipeline |-> NoPipeline,
                         waitedWith |-> Cardinality(Awaiting)])]
  /\ MipmapUnchanged

\* glslangModule() resolved and both shader modules were created.
ShadersResolve ==
  /\ mg.shadersReady = "pending"
  /\ mg' = [mg EXCEPT !.shadersReady = "fulfilled"]
  /\ MipmapUnchanged

\* glslangModule() rejected, or compiling a shader threw.
ShadersReject ==
  /\ mg.shadersReady = "pending"
  /\ mg' = [mg EXCEPT !.shadersReady = "rejected"]
  /\ MipmapUnchanged

\* The call that has waited longest continues after the await (reactions of
\* one promise run in the order they were registered) and runs to the return
\* of getMipmapPipeline; createRenderPipeline returns a pipeline or throws.
ResumeGetMipmapPipeline ==
  /\ Awaiting # {}
  /\ mg.shadersReady # "pending"
  /\ LET i == CHOOSE j \in Awaiting : \A k \in Awaiting : j <= k
         format == mg.calls[i].format
         pipeline == CachedPipeline(mg.pipelines, format)
         total == mg.created["rgba8unorm"] + mg.created["bgra8unorm"]
     IN IF mg.shadersReady = "rejected"
        THEN mg' = [mg EXCEPT !.calls[i].pc = "rejected"]
        ELSE IF pipeline # NoPipeline
        THEN mg' = [mg EXCEPT !.calls[i].pc = "done", !.calls[i].pipeline = pipeline]
        ELSE \E createThrows \in BOOLEAN :
               IF createThrows
               THEN mg' = [mg EXCEPT !.calls[i].pc = "rejected"]
               ELSE mg' = [mg EXCEPT !.calls[i].pc = "done",
                                     !.calls[i].pipeline = Pipeline(total + 1),
                                     !.pipelines[format] = Pipeline(total + 1),
                                     !.created[format] = @ + 1]
  /\ MipmapUnchanged

NextMipmap ==
  \/ \E format \in MipmapFormats : GenerateMipmap(format)
  \/ ShadersResolve
  \/ ShadersReject
  \/ ResumeGetMipmapPipeline

SpecMipmap == InitMipmap /\ [][NextMipmap]_vars

\* C20: over any number of generateMipmap calls, concurrent ones for one
\* format included, at most one render pipeline is created per pixel format,
\* and an entry of the pipeline cache is never removed or replaced.
C20_OnePipelinePerFormat ==
  [][\A f \in MipmapFormats :
       /\ mg'.created[f] <= 1
       /\ mg.pipelines[f] # NoPipeline => mg'.pipelines[f] = mg.pipelines[f]]_vars

\* Two calls for one format waited on shadersReady together, both got the
\* same pipeline, and it was created once.
C20_Witness ==
  /\ Len(mg.calls) >= 2
  /\ mg.calls[1].format = mg.calls[2].format
  /\ mg.calls[2].waitedWith >= 1
  /\ mg.calls[1].pc = "done" /\ mg.calls[2].pc = "done"
  /\ mg.calls[1].pipeline = mg.calls[2].pipeline
  /\ mg.calls[1].pipeline # NoPipeline
  /\ mg.created[mg.calls[1].format] = 1

\* ---- WebGPUMipmapGenerator.generateMipmap: the recorded commands ----

MaxMipLevelCount == 4
MaxArrayLayers == 2

\* Widths and heights of level 0 of the texture handed to generateMipmap.
GenerateDims == {1, 2, 3, 4, 5, 8}

TextureDimensions == {"2d", "3d", "1d"}

\* texture.createView({baseMipLevel, mipLevelCount: 1, baseArrayLayer})
TextureView(texture, baseMipLevel, baseArrayLayer) ==
  [texture |-> texture, baseMipLevel |-> baseMipLevel, baseArrayLayer |-> baseArrayLayer]

\* A deliberately wrong variant of the hand-over between passes: the next
\* pass keeps sampling what the last one sampled.
NextSrcView_Stale(srcView, dstView) == srcView

\* srcView = dstView
NextSrcView(srcView, dstView) == dstView

\* The state of one generateMipmap call.  commands is what was recorded on
\* the command encoder, in order; scratchTextures counts the temporary
\* textures created and scratch is the descriptor of the last one.
GenerateIdle(width, height, mipLevelCount, arrayLayerCount, dimension, renderToSource) ==
  [path |-> "idle", pc |-> "call",
   width |-> width, height |-> height, mipLevelCount |-> mipLevelCount,
   arrayLayerCount |-> arrayLayerCount, dimension |-> dimension,
   renderToSource |-> renderToSource,
   outcome |-> "none", error |-> NoError,
   scratchTextures |-> 0,
   scratch |-> [width |-> 0, height |-> 0, mipLevelCount |-> 0],
   encoders |-> 0, commands |-> <<>>, submitted |-> FALSE,
   arrayLayer |-> 0, i |-> 1, dstMipLevel |-> 0,
   srcView |-> TextureView("source", 0, 0),
   mipLevelSize |-> [width |-> 0, height |-> 0]]

\* A texture of the given size has at most calculateMipLevels levels.
InitGenerate ==
  /\ \E width \in GenerateDims, height \in GenerateDims,
        mipLevelCount \in 1..MaxMipLevelCount, arrayLayerCount \in 1..MaxArrayLayers,
        dimension \in TextureDimensions, renderToSource \in BOOLEAN :
       /\ mipLevelCount <= calculateMipLevels(width, height)
       /\ mg = GenerateIdle(width, height, mipLevelCount, arrayLayerCount, dimension,
                            renderToSource)
  /\ sel = Off
  /\ wk = Off
  /\ pk = Off
  /\ ProtocolOff
  /\ tl = Off
  /\ dm = Off
  /\ cl = Off

\* The texture the passes render into.
MipTexture(g) == IF g.renderToSource THEN "source" ELSE "scratch"

\* Where the call stands once the render loops were entered for array layer
\* arrayLayer: in the pass loop, or past both loops.
EnterLayer(g, arrayLayer) ==
  IF arrayLayer < g.arrayLayerCount /\ 1 < g.mipLevelCount
  THEN [g EXCEPT !.pc = "render", !.arrayLayer = arrayLayer, !.i = 1,
                 !.dstMipLevel = IF g.renderToSource THEN 1 ELSE 0,
                 !.srcView = TextureView("source", 0, arrayLayer)]
  ELSE IF g.renderToSource
  THEN [g EXCEPT !.pc = "submit"]
  ELSE [g EXCEPT !.pc = "copy", !.i = 1,
                 !.mipLevelSize = [width |-> CeilDiv(g.width, 2),
                                   height |-> CeilDiv(g.height, 2)]]

\* From the return of getMipmapPipeline to the first render pass: the
\* temporary texture, when the texture cannot be rendered into, and the
\* command encoder.
BeginRecording(g) ==
  LET withScratch ==
        IF g.renderToSource THEN g
        ELSE [g EXCEPT !.scratchTextures = 1,
                       !.scratch = [width |-> CeilDiv(g.width, 2),
                                    height |-> CeilDiv(g.height, 2),
                                    mipLevelCount |-> g.mipLevelCount - 1]]
  IN EnterLayer([withScratch EXCEPT !.encoders = 1], 0)

\* generateMipmap of the generator with array layers: '3d' and '1d' textures
\* are refused before anything is created.
GenerateMipmapBegin ==
  /\ mg.path = "idle"
  /\ mg' = IF mg.dimension \in {"3d", "1d"}
           THEN [mg EXCEPT !.path = "generator", !.pc = "done", !.outcome = "threw",
                           !.error = "Generating mipmaps for non-2d textures is currently unsupported!"]
           ELSE [BeginRecording(mg) EXCEPT !.path = "generator"]
  /\ MipmapUnchanged

\* generateMipmap of the earlier generator: one layer, no test of dimension.
PrevGenerateMipmapBegin ==
  /\ mg.path = "idle"
  /\ mg.arrayLayerCount = 1
  /\ mg' = [BeginRecording(mg) EXCEPT !.path = "generator-prev"]
  /\ MipmapUnchanged

\* One iteration of the pass loop.
RenderPass ==
  /\ mg.path # "idle"
  /\ mg.pc = "render"
  /\ LET dstView == TextureView(MipTexture(mg), mg.dstMipLevel, mg.arrayLayer)
         recorded ==
           [mg EXCEPT !.commands =
                        Append(@, [kind |-> "renderPass", attachment |-> dstView,
                                   sampled |-> mg.srcView]),
                      !.dstMipLevel = @ + 1,
                      !.srcView = NextSrcView(mg.srcView, dstView),
                      !.i = @ + 1]
     IN mg' = IF recorded.i < mg.mipLevelCount THEN recorded
              ELSE EnterLayer(recorded, mg.arrayLayer + 1)
  /\ MipmapUnchanged

\* The last value of i the copy loop runs with.
LastCopyLevel(g) ==
  IF g.path = "generator" THEN g.mipLevelCount - 2 ELSE g.mipLevelCount - 1

\* One iteration of the copy-back loop, or its exit.
CopyBack ==
  /\ mg.path # "idle"
  /\ mg.pc = "copy"
  /\ mg' = IF mg.i <= LastCopyLevel(mg)
           THEN [mg EXCEPT !.commands =
                             Append(@, [kind |-> "copyTextureToTexture",
                                        srcMipLevel |-> mg.i - 1, dstMipLevel |-> mg.i,
                                        width |-> mg.mipLevelSize.width,
                                        height |-> mg.mipLevelSize.height]),
                           !.mipLevelSize = [width |-> CeilDiv(@.width, 2),
                                             height |-> CeilDiv(@.height, 2)],
                           !.i = @ + 1]
           ELSE [mg EXCEPT !.pc = "submit"]
  /\ MipmapUnchanged

\* defaultQueue.submit([commandEncoder.finish()]) and the return.
SubmitCommands ==
  /\ mg.path # "idle"
  /\ mg.pc = "submit"
  /\ mg' = [mg EXCEPT !.pc = "done", !.submitted = TRUE, !.outcome = "returned"]
  /\ MipmapUnchanged

NextGenerate ==
  \/ GenerateMipmapBegin
  \/ PrevGenerateMipmapBegin
  \/ RenderPass
  \/ CopyBack
  \/ SubmitCommands

SpecGenerate == InitGenerate /\ [][NextGenerate]_vars

\* ---- properties of SpecGenerate ----

\* The call has returned after rendering into a scratch texture.
ScratchCallReturned ==
  mg.path # "idle" /\ mg.pc = "done" /\ mg.outcome = "returned" /\ ~mg.renderToSource

CopyIndices == {k \in 1..Len(mg.commands) : mg.commands[k].kind = "copyTextureToTexture"}

PassIndices == {k \in 1..Len(mg.commands) : mg.commands[k].kind = "renderPass"}

\* C21: when synthesis renders into a scratch texture, a copy from scratch
\* level i-1 into destination level i is recorded for every i in
\* 1..mipCount-1, after all render passes and before the submit.
C21_EveryLevelCopiedBack ==
  /\ ScratchCallReturned =>
       \A i \in 1..(mg.mipLevelCount - 1) :
         \E k \in CopyIndices :
           mg.commands[k].srcMipLevel = i - 1 /\ mg.commands[k].dstMipLevel = i
  /\ mg.path # "idle" =>
       /\ \A k \in CopyIndices : \A p \in PassIndices : p < k
       /\ (mg.submitted => mg.pc = "done")

\* C22: synthesis for a '3d' or '1d' texture fails with the 'unsupported'
\* error; no scratch texture is created, nothing is recorded or submitted.
C22_NonTwoDimensionalRefused ==
  (mg.path # "idle" /\ mg.dimension \in {"3d", "1d"}) =>
    /\ mg.outcome = "threw"
    /\ mg.error = "Generating mipmaps for non-2d textures is currently unsupported!"
    /\ mg.scratchTextures = 0
    /\ mg.commands = <<>>
    /\ ~mg.submitted

\* The render passes recorded for one array layer, in order.
PassesOfLayer(arrayLayer) ==
  LET IsPassOfLayer(c) == c.kind = "renderPass" /\ c.attachment.baseArrayLayer = arrayLayer
  IN SelectSeq(mg.commands, IsPassOfLayer)

\* C26: per array layer, synthesis records mipCount-1 render passes in
\* ascending level order; the pass for level 1 samples level 0 of the source
\* and the pass for level i > 1 samples the view the pass for level i-1
\* rendered into (destination level i-1, or scratch level i-2).
C26_PassChain ==
  mg.path # "idle" =>
    \A arrayLayer \in 0..(mg.arrayLayerCount - 1) :
      LET passes == PassesOfLayer(arrayLayer)
      IN /\ \A i \in 1..Len(passes) :
              /\ passes[i].attachment =
                   TextureView(MipTexture(mg), IF mg.renderToSource THEN i ELSE i - 1,
                               arrayLayer)
              /\ i = 1 => passes[i].sampled = TextureView("source", 0, arrayLayer)
              /\ i > 1 =>
                   /\ passes[i].sampled = passes[i - 1].attachment
                   /\ passes[i].sampled =
                        TextureView(MipTexture(mg),
                                    IF mg.renderToSource THEN i - 1 ELSE i - 2, arrayLayer)
         /\ mg.outcome = "returned" => Len(passes) = mg.mipLevelCount - 1

\* A two-layer call with four levels went through a scratch texture.
C26_Witness ==
  /\ mg.path = "generator"
  /\ mg.outcome = "returned"
  /\ ~mg.renderToSource
  /\ mg.arrayLayerCount = 2
  /\ mg.mipLevelCount = 4
  /\ Len(PassesOfLayer(1)) = 3
  /\ PassesOfLayer(1)[3].sampled = TextureView("scratch", 1, 1)

\* C29: the region of every copy from scratch level i-1 into destination
\* level i lies within max(1, floor(width / 2^i)) x max(1, floor(height /
\* 2^i)), and a scratch texture is created with at least one mip level.
C29_CopyRegionWithinLevel ==
  mg.path # "idle" =>
    /\ \A k \in CopyIndices :
         /\ mg.commands[k].width <= MipDim(mg.width, mg.commands[k].dstMipLevel)
         /\ mg.commands[k].height <= MipDim(mg.height, mg.commands[k].dstMipLevel)
    /\ mg.scratchTextures > 0 => mg.scratch.mipLevelCount >= 1

\* ---- allowCompressedFormats and the format list sent to the workers ----

MaxRequests == 3

\* The compressed-texture extensions a WebGL context may expose (three of
\* the six the client asks for) and the extensions of a WebGPU device.
WebGLExtensions == {"bptc", "etc1", "s3tc"}

WebGPUExtensions == {"texture-compression-bc", "depth-clamping"}

\* EXTENSION_FORMATS['texture-compression-bc']
EXTENSION_FORMATS ==
  <<"bc1-rgba-unorm", "bc2-rgba-unorm", "bc3-rgba-unorm", "bc7-rgba-unorm">>

\* WebGLTextureClient constructor: supportedFormatList
WebGLSupportedFormatList(extensions) ==
  <<"rgb8unorm", "rgba8unorm", "rgb565unorm", "rgba4unorm">>
    \o (IF "bptc" \in extensions THEN <<"bc7-rgba-unorm">> ELSE <<>>)
    \o (IF "etc1" \in extensions THEN <<"etc1-rgb-unorm">> ELSE <<>>)
    \o (IF "s3tc" \in extensions THEN <<"bc1-rgb-unorm", "bc3-rgba-unorm">> ELSE <<>>)

\* WebGPUTextureClient constructor: supportedFormatList
WebGPUSupportedFormatList(extensions) ==
  <<"rgba8unorm">>
    \o (IF "texture-compression-bc" \in extensions THEN EXTENSION_FORMATS ELSE <<>>)

\* WebGPUTextureClient constructor: uncompressedFormatList
uncompressedFormatList == <<"rgba8unorm">>

\* client.supportedFormats(): the WebGL client returns its one list whatever
\* allowCompressedFormats was set to.
ClientSupportedFormats(c) ==
  IF c.path = "webgl" THEN WebGLSupportedFormatList(c.extensions)
  ELSE IF c.allowCompressedFormats = "true" THEN WebGPUSupportedFormatList(c.extensions)
  ELSE uncompressedFormatList

\* A tool over a fresh client.  The WebGPU client starts with
\* allowCompressedFormats true; the WebGL client has no such field until the
\* tool's setter assigns it.
InitFormats ==
  /\ \/ \E extensions \in SUBSET WebGLExtensions :
          cl = [path |-> "webgl", extensions |-> extensions,
                allowCompressedFormats |-> "undefined", sent |-> <<>>]
     \/ \E extensions \in SUBSET WebGPUExtensions :
          cl = [path |-> "webgpu", extensions |-> extensions,
                allowCompressedFormats |-> "true", sent |-> <<>>]
  /\ sel = Off
  /\ wk = Off
  /\ pk = Off
  /\ ProtocolOff
  /\ tl = Off
  /\ dm = Off
  /\ mg = Off

\* set allowCompressedFormats(value): this[CLIENT].allowCompressedFormats = !!value
SetAllowCompressedFormats(value) ==
  /\ cl' = [cl EXCEPT !.allowCompressedFormats = value]
  /\ UNCHANGED <<sel, wk, pk, protocolVars, dm, mg, tl>>

\* get allowCompressedFormats()
GetAllowCompressedFormats(c) == c.allowCompressedFormats

\* WorkerLoader.loadTextureFromUrl: the request posted to the worker.
PostTranscodeRequest ==
  /\ Len(cl.sent) < MaxRequests
  /\ cl' = [cl EXCEPT !.sent =
              Append(@, [allowCompressedFormats |-> GetAllowCompressedFormats(cl),
                         supportedFormats |-> ClientSupportedFormats(cl)])]
  /\ UNCHANGED <<sel, wk, pk, protocolVars, dm, mg, tl>>

NextFormats ==
  \/ \E value \in {"true", "false"} : SetAllowCompressedFormats(value)
  \/ PostTranscodeRequest

SpecFormats == InitFormats /\ [][NextFormats]_vars

\* The formats that store single texels (GL_FORMAT_MAP entries without the
\* compressed flag).
UncompressedFormats == {"rgb8unorm", "rgba8unorm", "rgb565unorm", "rgba4unorm"}

\* C23: a request posted while allowCompressedFormats is false carries a
\* supported-format list without any compressed format and with
\* 'rgba8unorm'; for the WebGL and for the WebGPU client.
C23_NoCompressedFormatsWhenDisallowed ==
  \A k \in 1..Len(cl.sent) :
    cl.sent[k].allowCompressedFormats = "false" =>
      LET formats == {cl.sent[k].supportedFormats[i] :
                        i \in 1..Len(cl.sent[k].supportedFormats)}
      IN formats \subseteq UncompressedFormats /\ "rgba8unorm" \in formats

\* ---- tools, their clients and the shared extension handlers ----

MaxToolCalls == 3
MaxDestroyCalls == 2

\* WebTextureTool instances of the page.
Tools == {"tool1", "tool2"}

\* EXTENSION_HANDLERS entries whose loader is a WorkerLoader.
Families == {"basis", "ktx2"}

\* A deliberately wrong variant of the test in getLoader: the handler never
\* finds the loader it made.
HasLoader_Never(loader) == FALSE

\* getLoader: if (!this.loader) is false
HasLoader(loader) == loader # "null"

\* A deliberately wrong variant of the tool's guard: the tool never counts as
\* destroyed.
IsDestroyed_Never(t) == FALSE

\* if (!this[CLIENT])
IsDestroyed(t) == t.CLIENT = "null"

\* A deliberately wrong variant of the client's guard: the device is taken
\* to be there.
DeviceGone_Ignored(t) == FALSE

\* if (!this.device)
DeviceGone(t) == t.device = "null"

\* new WebGPUTextureTool(device) for every tool; no loader exists yet.
\* destroyCalls counts calls of tool.destroy(), clientDestroyCalls calls of
\* the client's destroy(); workers counts the Worker objects created per
\* family; uploads holds the textures created, with the tool they are for.
InitTool ==
  /\ tl = [path |-> "tools",
           tools |-> [t \in Tools |->
                        [CLIENT |-> "client", device |-> "device", destroyCalls |-> 0,
                         clientDestroyCalls |-> 0]],
           loader |-> [f \in Families |-> "null"],
           workers |-> [f \in Families |-> 0],
           nextPendingTextureId |-> 1,
           pendingTextures |-> {},
           inbox |-> [f \in Families |-> {}],
           calls |-> <<>>,
           uploads |-> {}]
  /\ sel = Off
  /\ wk = Off
  /\ pk = Off
  /\ ProtocolOff
  /\ dm = Off
  /\ cl = Off
  /\ mg = Off

ToolUnchanged == UNCHANGED <<sel, wk, pk, protocolVars, dm, cl, mg>>

DestroyedError == ErrorValue("Cannot create new textures after object has been destroyed.")

\* One more call in the log.
ToolCall(t, kind, family, id, state, value) ==
  [tool |-> t, kind |-> kind, family |-> family, id |-> id, state |-> state,
   value |-> value, toolDestroyedAtCall |-> (tl.tools[t].CLIENT = "null"),
   deviceGoneAtDelivery |-> FALSE]

\* tool.loadTextureFromUrl(url) for a URL of the given family, through
\* getLoader and WorkerLoader.loadTextureFromUrl: the request is posted and
\* its entry registered before the call returns.
ToolLoadTextureFromUrl(t, family) ==
  /\ Len(tl.calls) < MaxToolCalls
  /\ IF IsDestroyed(tl.tools[t])
     THEN tl' = [tl EXCEPT !.calls =
                   Append(@, ToolCall(t, "load", family, 0, "rejected", DestroyedError))]
     ELSE LET pendingTextureId == tl.nextPendingTextureId
              created == ~HasLoader(tl.loader[family])
          IN tl' = [tl EXCEPT
                      !.loader[family] = "loader",
                      !.workers[family] = IF created THEN @ + 1 ELSE @,
                      !.nextPendingTextureId = @ + 1,
                      !.inbox[family] = @ \cup {pendingTextureId},
                      !.pendingTextures = @ \cup {pendingTextureId},
                      !.calls = Append(@, ToolCall(t, "load", family, pendingTextureId,
                                                   "pending", NoValue))]
  /\ ToolUnchanged

\* client.textureFromLevelData on the client of tool t: null without a
\* device, a texture otherwise (a device that throws is part of Spec).
ClientUpload(t) ==
  IF DeviceGone(tl.tools[t]) THEN [value |-> NullResult, uploaded |-> FALSE]
  ELSE [value |-> [kind |-> "texture"], uploaded |-> TRUE]

\* tool.createTextureFromColor(r, g, b, a)
ToolCreateTextureFromColor(t) ==
  /\ Len(tl.calls) < MaxToolCalls
  /\ IF IsDestroyed(tl.tools[t])
     THEN tl' = [tl EXCEPT !.calls =
                   Append(@, ToolCall(t, "color", "none", 0, "threw", DestroyedError))]
     ELSE LET result == ClientUpload(t)
          IN tl' = [tl EXCEPT
                      !.calls = Append(@, ToolCall(t, "color", "none", 0, "returned",
                                                   result.value)),
                      !.uploads = IF result.uploaded
                                  THEN @ \cup {[tool |-> t, device |-> tl.tools[t].device]}
                                  ELSE @]
  /\ ToolUnchanged

\* The destroy() calls made so far, over all tools.
DestroyCalls == tl.tools["tool1"].destroyCalls + tl.tools["tool2"].destroyCalls

\* tool.destroy()
ToolDestroy(t) ==
  /\ DestroyCalls < MaxDestroyCalls
  /\ tl' = IF IsDestroyed(tl.tools[t])
           THEN [tl EXCEPT !.tools[t].destroyCalls = @ + 1]
           ELSE [tl EXCEPT !.tools[t].destroyCalls = @ + 1,
                           !.tools[t].clientDestroyCalls = @ + 1,
                           !.tools[t].device = "null",
                           !.tools[t].CLIENT = "null"]
  /\ ToolUnchanged

\* The index of the call that was issued id.
CallOf(id) == CHOOSE i \in 1..Len(tl.calls) : tl.calls[i].id = id

\* The worker of a family answers one of its requests and onWorkerMessage
\* handles the answer: an error rejects, data is handed to the client the
\* request was made with.
ToolOnWorkerMessage(family) ==
  /\ \E id \in tl.inbox[family], isError \in BOOLEAN :
       IF id \notin tl.pendingTextures
       THEN tl' = [tl EXCEPT !.inbox[family] = @ \ {id}]
       ELSE LET call == CallOf(id)
                t == tl.calls[call].tool
                result == ClientUpload(t)
                gone == tl.tools[t].device = "null"
            IN tl' = [tl EXCEPT
                        !.inbox[family] = @ \ {id},
                        !.pendingTextures = @ \ {id},
                        !.calls[call].deviceGoneAtDelivery = gone,
                        !.calls[call].state = IF isError THEN "rejected" ELSE "resolved",
                        !.calls[call].value =
                          IF isError THEN ErrorValue("Texture load failed")
                          ELSE result.value,
                        !.uploads = IF ~isError /\ result.uploaded
                                    THEN @ \cup {[tool |-> t, device |-> tl.tools[t].device]}
                                    ELSE @]
  /\ ToolUnchanged

NextTool ==
  \/ \E t \in Tools, family \in Families : ToolLoadTextureFromUrl(t, family)
  \/ \E t \in Tools : ToolCreateTextureFromColor(t)
  \/ \E t \in Tools : ToolDestroy(t)
  \/ \E family \in Families : ToolOnWorkerMessage(family)

SpecTool == InitTool /\ [][NextTool]_vars

\* ---- properties of SpecTool ----

\* The load requests that reached a loader of the family.
LoadsOf(family) ==
  {i \in 1..Len(tl.calls) :
     tl.calls[i].kind = "load" /\ tl.calls[i].family = family /\ tl.calls[i].id # 0}

\* C25: a family has no worker until the first load request for it, and
\* after any sequence of requests, from one tool or several, at most one
\* worker was created per family.
C25_OneLazyWorkerPerFamily ==
  \A family \in Families :
    /\ tl.workers[family] <= 1
    /\ LoadsOf(family) = {} => tl.workers[family] = 0
    /\ LoadsOf(family) # {} => tl.workers[family] = 1

\* Both tools loaded a file of one family through the one worker, and the
\* other family is still without a worker.
C25_Witness ==
  /\ \E i, j \in LoadsOf("ktx2") : tl.calls[i].tool # tl.calls[j].tool
  /\ tl.workers["ktx2"] = 1
  /\ tl.workers["basis"] = 0

C30_NoUploadAfterDestroy ==
  /\ \A u \in tl.uploads : u.device # "null"
  /\ \A i \in 1..Len(tl.calls) :
       tl.calls[i].deviceGoneAtDelivery => tl.calls[i].value.kind # "texture"

\* A data response for a request of a tool destroyed in the meantime was
\* handled: the promise resolved with null.
C30_Witness ==
  \E i \in 1..Len(tl.calls) :
    /\ tl.calls[i].kind = "load"
    /\ ~tl.calls[i].toolDestroyedAtCall
    /\ tl.calls[i].deviceGoneAtDelivery
    /\ tl.calls[i].state = "resolved"
    /\ tl.calls[i].value = NullResult

====
